---------------------------- MODULE Spec2Model ----------------------------
(***************************************************************************)
(* A model of the resume-processing core of workua_toolkit:                *)
(*   processing/regex_extractor.py  (date engine, duty splitter, parsers)  *)
(*   processing/regex_resume.py     (regex_extract_from_payload)           *)
(*   processing/processor.py        (aggregations, process_payload)        *)
(*                                                                         *)
(* Text is modelled as a sequence of one-character strings (or of tokens   *)
(* where a whole keyword is a unit), so that parsing, formatting and       *)
(* normalisation are computed, not assumed.                                *)
(*                                                                         *)
(* Each component has its own call frame (one variable, a record of the    *)
(* function's locals plus a pc) and its own specification; a frame that a  *)
(* specification does not use stays Off.                                   *)
(***************************************************************************)
EXTENDS Integers, Sequences, FiniteSets, TLC

VARIABLES dur, agg, duty, work, proc, edu, skill, scrape

vars == <<dur, agg, duty, work, proc, edu, skill, scrape>>

Off == [pc |-> "off"]

\* ------------------------------------------------------------------------
\* Generic helpers on sequences
\* ------------------------------------------------------------------------
None == "None"

\* Python's None where the value is otherwise a text
Nil == <<"None">>

Range(s) == {s[i] : i \in 1..Len(s)}

RECURSIVE SumSeq(_)
SumSeq(s) == IF s = <<>> THEN 0 ELSE Head(s) + SumSeq(Tail(s))

RECURSIVE Concat(_)
Concat(ss) == IF ss = <<>> THEN <<>> ELSE Head(ss) \o Concat(Tail(ss))

Max2(a, b) == IF a >= b THEN a ELSE b

\* All sequences over S of length 0..n
SeqsUpTo(S, n) == UNION {[1..k -> S] : k \in 0..n}

\* ------------------------------------------------------------------------
\* Date / duration engine (regex_extractor.py)
\* ------------------------------------------------------------------------
Digits == <<"0", "1", "2", "3", "4", "5", "6", "7", "8", "9">>

DigitChar(n) == Digits[n + 1]

DigitVal(c) == CHOOSE n \in 0..9 : Digits[n + 1] = c

IsDigit(c) == c \in Range(Digits)

\* Python int() on a string of decimal digits
RECURSIVE ParseInt(_)
ParseInt(s) ==
    IF s = <<>> THEN 0
    ELSE ParseInt(SubSeq(s, 1, Len(s) - 1)) * 10 + DigitVal(s[Len(s)])

\* f"{n:02d}" and f"{n:04d}"
Fmt2(n) == <<DigitChar((n \div 10) % 10), DigitChar(n % 10)>>

Fmt4(n) == <<DigitChar((n \div 1000) % 10), DigitChar((n \div 100) % 10)>> \o Fmt2(n % 100)

\* f"{y:04d}-{m:02d}"
FmtYM(y, m) == Fmt4(y) \o <<"-">> \o Fmt2(m)

\* position of the first occurrence of c in s, 0 if none
IndexOf(s, c) ==
    IF c \in Range(s) THEN CHOOSE i \in 1..Len(s) : s[i] = c /\ \A j \in 1..(i - 1) : s[j] # c
    ELSE 0

\* y, m = ym.split("-"); int(y) * 12 + int(m)
ym_to_int(ym) ==
    LET i == IndexOf(ym, "-")
    IN  ParseInt(SubSeq(ym, 1, i - 1)) * 12 + ParseInt(SubSeq(ym, i + 1, Len(ym)))

calc_months_nofence(start_ym, end_ym) ==
    IF start_ym = <<>> \/ end_ym = <<>> THEN 0
    ELSE LET a == ym_to_int(start_ym)
             b == ym_to_int(end_ym)
         IN  IF b < a THEN 0 ELSE b - a

calc_months(start_ym, end_ym) ==
    IF start_ym = <<>> \/ end_ym = <<>> THEN 0
    ELSE LET a == ym_to_int(start_ym)
             b == ym_to_int(end_ym)
         IN  IF b < a THEN 0 ELSE (b - a) + 1

\* datetime.date(y, m, d) as a record; date comparison is lexicographic
Date(y, m, d) == [year |-> y, month |-> m, day |-> d]

DateLess(b, a) ==
    \/ b.year < a.year
    \/ b.year = a.year /\ b.month < a.month
    \/ b.year = a.year /\ b.month = a.month /\ b.day < a.day

months_between_exclusive(a, b) ==
    IF DateLess(b, a) THEN 0
    ELSE (b.year - a.year) * 12 + (b.month - a.month)

months_between(a, b) ==
    IF DateLess(b, a) THEN 0
    ELSE (b.year - a.year) * 12 + (b.month - a.month) + 1

\* --- the duration specification: one call of calc_months and of
\* --- months_between on the same pair of periods
FirstYear == 2018
YearSpan == 2

DurYears == FirstYear..(FirstYear + YearSpan)

InitDur ==
    /\ \E ys \in DurYears, ms \in 1..12, ye \in DurYears, me \in 1..12 :
         dur = [pc |-> "call", ys |-> ys, ms |-> ms, ye |-> ye, me |-> me,
                start_ym |-> FmtYM(ys, ms), end_ym |-> FmtYM(ye, me),
                calc_ret |-> None, between_ret |-> None]
    /\ agg = Off /\ duty = Off /\ work = Off /\ proc = Off /\ edu = Off /\ skill = Off /\ scrape = Off

CalcMonths ==
    /\ dur.pc = "call"
    /\ dur' = [dur EXCEPT !.pc = "calc",
                          !.calc_ret = calc_months(dur.start_ym, dur.end_ym)]
    /\ UNCHANGED <<agg, duty, work, proc, edu, skill, scrape>>

MonthsBetween ==
    /\ dur.pc = "calc"
    /\ dur' = [dur EXCEPT !.pc = "done",
                          !.between_ret = months_between(Date(dur.ys, dur.ms, 1),
                                                         Date(dur.ye, dur.me, 1))]
    /\ UNCHANGED <<agg, duty, work, proc, edu, skill, scrape>>

NextDur == CalcMonths \/ MonthsBetween

SpecDur == InitDur /\ [][NextDur]_vars

\* C4: for canonical periods start and end, the duration is
\* (year(end)*12+month(end)) - (year(start)*12+month(start)) + 1 when end is
\* not before start and 0 when end precedes start, for calc_months and for
\* months_between alike; it is never negative.
MonthIndex(y, m) == y * 12 + m

InclusiveSpan(ys, ms, ye, me) ==
    IF MonthIndex(ye, me) >= MonthIndex(ys, ms)
    THEN MonthIndex(ye, me) - MonthIndex(ys, ms) + 1
    ELSE 0

C4_DurationFormula ==
    dur.pc = "done" =>
        /\ dur.calc_ret = InclusiveSpan(dur.ys, dur.ms, dur.ye, dur.me)
        /\ dur.between_ret = InclusiveSpan(dur.ys, dur.ms, dur.ye, dur.me)
        /\ dur.calc_ret >= 0 /\ dur.between_ret >= 0

\* a transposed range and a range crossing a year boundary have both been computed
C4_Witness ==
    /\ dur.pc = "done"
    /\ dur.ye = dur.ys + 1 /\ dur.me < dur.ms
    /\ dur.calc_ret = 12 - dur.ms + dur.me + 1

C4_WitnessTransposed ==
    /\ dur.pc = "done"
    /\ MonthIndex(dur.ye, dur.me) < MonthIndex(dur.ys, dur.ms)
    /\ dur.calc_ret = 0

\* ------------------------------------------------------------------------
\* Text normalisation (processor.py)
\* ------------------------------------------------------------------------
\* "_" stands for a no-break space: whitespace to \s and str.strip(), but
\* neither a line boundary nor one of the characters of strip(" -\t")
IsSpace(c) == c \in {" ", "\n", "\t", "_"}

\* str.lower() on the letters the model uses
Lower(c) ==
    CASE c = "A" -> "a"
      [] c = "B" -> "b"
      [] c = "C" -> "c"
      [] c = "D" -> "d"
      [] c = "E" -> "e"
      [] c = "W" -> "w"
      [] OTHER -> c

LowerStr(s) == [i \in 1..Len(s) |-> Lower(s[i])]

\* str.strip()
RECURSIVE LStrip(_)
LStrip(s) == IF s # <<>> /\ IsSpace(Head(s)) THEN LStrip(Tail(s)) ELSE s

RECURSIVE RStrip(_)
RStrip(s) ==
    IF s # <<>> /\ IsSpace(s[Len(s)]) THEN RStrip(SubSeq(s, 1, Len(s) - 1)) ELSE s

Strip(s) == RStrip(LStrip(s))

\* re.sub(r"\s+", " ", s): every run of whitespace becomes one blank
RECURSIVE CollapseWs(_)
CollapseWs(s) ==
    IF s = <<>> THEN <<>>
    ELSE IF IsSpace(Head(s))
         THEN <<" ">> \o CollapseWs(LStrip(s))
         ELSE <<Head(s)>> \o CollapseWs(Tail(s))

\* len() of the text a token stands for
TokLen(c) ==
    CASE c = "T" -> 48
      [] c = "H" -> 11
      [] c = "uni" -> 11
      [] c = "cr" -> 7
      [] c = "dr" -> 6
      [] c = "en" -> 7
      [] c = "mid" -> 12
      [] c = "up" -> 5
      [] c = "pos" -> 6
      [] c = "nyni" -> 4
      [] c = "hi" -> 4
      [] c = "tov" -> 3
      [] c = "kat" -> 3
      [] c = "po" -> 2
      [] OTHER -> 1

RECURSIVE TextLen(_)
TextLen(s) == IF s = <<>> THEN 0 ELSE TokLen(Head(s)) + TextLen(Tail(s))

TitlePunct == {"(", ")", "[", "]", ",", ".", ";", ":"}

\* re.sub(r"[\(\)\[\],.;:]+", " ", t): every run of punctuation becomes one blank
RECURSIVE SubTitlePunct(_)
SubTitlePunct(s) ==
    IF s = <<>> THEN <<>>
    ELSE IF Head(s) \in TitlePunct
         THEN IF Len(s) > 1 /\ s[2] \in TitlePunct
              THEN SubTitlePunct(Tail(s))
              ELSE <<" ">> \o SubTitlePunct(Tail(s))
         ELSE <<Head(s)>> \o SubTitlePunct(Tail(s))

norm_title_keep_punct(t) == Strip(CollapseWs(LowerStr(t)))

norm_title(t) == Strip(CollapseWs(SubTitlePunct(LowerStr(t))))

norm_skill(s) == CollapseWs(LowerStr(Strip(s)))

\* fmt_years_1dp: months / 12 printed with one decimal (round half to even,
\* exact because the ties x.25 and x.75 are binary fractions); in tenths
fmt_years_1dp(months) ==
    IF months <= 0 THEN None
    ELSE LET q == (months * 5) \div 6
             r == (months * 5) % 6
         IN  IF r < 3 THEN q
             ELSE IF r > 3 THEN q + 1
             ELSE IF q % 2 = 0 THEN q ELSE q + 1

\* ------------------------------------------------------------------------
\* aggregate_months_by_title (processor.py)
\*
\* A cluster is [rep_raw, rep_norm, months, titles]; similarity scores are
\* in hundredths (0.82 is 82).
\* ------------------------------------------------------------------------
Thr == 82

NewCluster(raw_title, title_n, months) ==
    [rep_raw |-> raw_title, rep_norm |-> title_n, months |-> months,
     titles |-> {raw_title}]

\* the guards of lines 62-69: the entry is skipped
AggSkips(it) ==
    \/ Strip(it.title) = <<>>
    \/ it.months <= 0
    \/ norm_title(Strip(it.title)) = <<>>

\* for c in clusters: if title_n == c["rep_norm"] ... break; 0 when the loop's
\* else-branch runs
ExactMatchIdx_last(clusters, title_n) ==
    IF clusters # <<>> /\ clusters[Len(clusters)].rep_norm = title_n
    THEN Len(clusters) ELSE 0

ExactMatchIdx(clusters, title_n) ==
    IF \E i \in 1..Len(clusters) : clusters[i].rep_norm = title_n
    THEN CHOOSE i \in 1..Len(clusters) :
            /\ clusters[i].rep_norm = title_n
            /\ \A j \in 1..(i - 1) : clusters[j].rep_norm # title_n
    ELSE 0

\* c["months"] += months; c["titles"].add(raw_title)
AddToCluster_overwrite(c, raw_title, months) ==
    [c EXCEPT !.months = months, !.titles = @ \cup {raw_title}]

AddToCluster(c, raw_title, months) ==
    [c EXCEPT !.months = @ + months, !.titles = @ \cup {raw_title}]

\* lines 74-89
ExactStep(clusters, raw_title, title_n, months) ==
    LET i == ExactMatchIdx(clusters, title_n)
    IN  IF i # 0
        THEN [clusters EXCEPT ![i] = AddToCluster(clusters[i], raw_title, months)]
        ELSE Append(clusters, NewCluster(raw_title, title_n, months))

\* lines 94-101: best_idx, best_sim after scanning scores[1..n]; best_idx 0 is None
RECURSIVE BestScan_skipfirst(_, _)
BestScan_skipfirst(scores, n) ==
    IF n <= 1 THEN [idx |-> 0, sim |-> 0]
    ELSE LET prev == BestScan_skipfirst(scores, n - 1)
         IN  IF scores[n] > prev.sim THEN [idx |-> n, sim |-> scores[n]] ELSE prev

\* `sim >= best_sim` in place of line 100: the latest of equal scores wins
RECURSIVE BestScan_latest(_, _)
BestScan_latest(scores, n) ==
    IF n = 0 THEN [idx |-> 0, sim |-> 0]
    ELSE LET prev == BestScan_latest(scores, n - 1)
         IN  IF scores[n] >= prev.sim THEN [idx |-> n, sim |-> scores[n]] ELSE prev

RECURSIVE BestScan(_, _)
BestScan(scores, n) ==
    IF n = 0 THEN [idx |-> 0, sim |-> 0]
    ELSE LET prev == BestScan(scores, n - 1)
         IN  IF scores[n] > prev.sim THEN [idx |-> n, sim |-> scores[n]] ELSE prev

\* `<=` in place of the `<` of line 111: a title as long as the representative
\* replaces it too
UpdateRep_notstrict(c, raw_title) ==
    IF TextLen(raw_title) <= TextLen(c.rep_raw)
    THEN [c EXCEPT !.rep_raw = raw_title,
                   !.rep_norm = IF norm_title(raw_title) # <<>>
                                THEN norm_title(raw_title) ELSE c.rep_norm]
    ELSE c

\* lines 111-113
UpdateRep(c, raw_title) ==
    IF TextLen(raw_title) < TextLen(c.rep_raw)
    THEN [c EXCEPT !.rep_raw = raw_title,
                   !.rep_norm = IF norm_title(raw_title) # <<>>
                                THEN norm_title(raw_title) ELSE c.rep_norm]
    ELSE c

\* lines 103-122
SemanticStep(clusters, raw_title, title_n, months, scores) ==
    LET best == BestScan(scores, Len(clusters))
    IN  IF best.idx # 0 /\ best.sim >= Thr
        THEN [clusters EXCEPT ![best.idx] =
                 UpdateRep(AddToCluster(clusters[best.idx], raw_title, months), raw_title)]
        ELSE Append(clusters, NewCluster(raw_title, title_n, months))

\* the stub oracle: 1.0 for identical strings, 0.0 otherwise
StubSimilarity(a, b) == IF a = b THEN 100 ELSE 0

StubScores(clusters, raw_title) ==
    [i \in 1..Len(clusters) |-> StubSimilarity(raw_title, clusters[i].rep_raw)]

\* lines 127-139: one summary per cluster (titles: the sorted sample of at
\* most 20 raw titles, kept as a set: a run folds fewer than 20 entries)
Summary(c) ==
    [position |-> c.rep_norm, display_position |-> c.rep_raw, months |-> c.months,
     years |-> IF c.months # 0 THEN fmt_years_1dp(c.months) ELSE None,
     titles |-> c.titles]

\* line 141: out.sort(key=months, reverse=True), stable
RECURSIVE InsertDesc(_, _)
InsertDesc(sorted, x) ==
    IF sorted = <<>> THEN <<x>>
    ELSE IF Head(sorted).months >= x.months
         THEN <<Head(sorted)>> \o InsertDesc(Tail(sorted), x)
         ELSE <<x>> \o sorted

RECURSIVE SortDesc(_)
SortDesc(s) ==
    IF s = <<>> THEN <<>>
    ELSE InsertDesc(SortDesc(SubSeq(s, 1, Len(s) - 1)), s[Len(s)])

\* line 141 left out: the summaries in creation order
Finalize_unsorted(clusters) == [i \in 1..Len(clusters) |-> Summary(clusters[i])]

Finalize(clusters) == SortDesc([i \in 1..Len(clusters) |-> Summary(clusters[i])])

\* one iteration of the loop for a matcher that cannot fail ("none", "stub")
AggFold(clusters, it, matcher) ==
    LET raw_title == Strip(it.title)
        title_n == norm_title(raw_title)
    IN  IF AggSkips(it) THEN clusters
        ELSE IF matcher = "none"
             THEN ExactStep(clusters, raw_title, title_n, it.months)
             ELSE SemanticStep(clusters, raw_title, title_n, it.months,
                               StubScores(clusters, raw_title))

RECURSIVE AggClusters(_, _)
AggClusters(work_items, matcher) ==
    IF work_items = <<>> THEN <<>>
    ELSE AggFold(AggClusters(SubSeq(work_items, 1, Len(work_items) - 1), matcher),
                 work_items[Len(work_items)], matcher)

\* aggregate_months_by_title(work_items, matcher) as a function, for the
\* matchers that cannot fail
aggregate_months_by_title(work_items, matcher) == Finalize(AggClusters(work_items, matcher))

\* --- the aggregation specification: one run of aggregate_months_by_title,
\* --- one loop iteration per step.  matcher "none" is matcher=None, "stub" the
\* --- stub oracle, "any" an arbitrary oracle (every call may return any score
\* --- or raise).  agg.folded is a history variable: for each entry, the
\* --- clusters its iteration created or added months to.
MaxItems == 3
MaxMonths == 1

AggTitles == {<<" ">>, <<".">>, <<"A">>, <<"a", ".">>, <<"b">>}

Scores == {0, 50, Thr, 100}

AggEntries == [title : AggTitles, months : 0..MaxMonths]

InitAgg ==
    /\ \E items \in SeqsUpTo(AggEntries, MaxItems), m \in {"none", "stub", "any"} :
         agg = [pc |-> "loop", matcher |-> m, work_items |-> items, i |-> 1,
                clusters |-> <<>>, folded |-> [k \in 1..Len(items) |-> {}],
                last |-> <<>>, out |-> None]
    /\ dur = Off /\ duty = Off /\ work = Off /\ proc = Off /\ edu = Off /\ skill = Off /\ scrape = Off

Touched(old, new) ==
    {j \in 1..Len(new) : j > Len(old) \/ new[j].months # old[j].months}

AggAdvance(new) ==
    agg' = [agg EXCEPT !.i = @ + 1, !.clusters = new,
                       !.folded[agg.i] = Touched(agg.clusters, new),
                       !.last = <<>>]

\* agg.last is a history variable: the calls of matcher.similarity the last
\* entry made (line 98: raw_title against c["rep_raw"], cluster by cluster),
\* the scores they returned and the clusters before the entry was folded
AggAdvanceScored(new, raw_title, months, scores) ==
    agg' = [agg EXCEPT !.i = @ + 1, !.clusters = new,
                       !.folded[agg.i] = Touched(agg.clusters, new),
                       !.last = <<[raw_title |-> raw_title, months |-> months,
                                   asked |-> [k \in 1..Len(agg.clusters) |->
                                                 agg.clusters[k].rep_raw],
                                   scores |-> scores, before |-> agg.clusters]>>]

AggCur == agg.work_items[agg.i]

AggInLoop == agg.pc = "loop" /\ agg.i <= Len(agg.work_items)

AggSkip ==
    /\ AggInLoop
    /\ AggSkips(AggCur)
    /\ AggAdvance(agg.clusters)
    /\ UNCHANGED <<dur, duty, work, proc, edu, skill, scrape>>

AggExact ==
    /\ AggInLoop
    /\ ~AggSkips(AggCur)
    /\ agg.matcher = "none"
    /\ AggAdvance(ExactStep(agg.clusters, Strip(AggCur.title),
                            norm_title(Strip(AggCur.title)), AggCur.months))
    /\ UNCHANGED <<dur, duty, work, proc, edu, skill, scrape>>

AggSemantic ==
    /\ AggInLoop
    /\ ~AggSkips(AggCur)
    /\ agg.matcher # "none"
    /\ \E scores \in [1..Len(agg.clusters) -> Scores] :
         /\ agg.matcher = "stub" => scores = StubScores(agg.clusters, Strip(AggCur.title))
         /\ AggAdvanceScored(SemanticStep(agg.clusters, Strip(AggCur.title),
                                          norm_title(Strip(AggCur.title)), AggCur.months,
                                          scores),
                             Strip(AggCur.title), AggCur.months, scores)
    /\ UNCHANGED <<dur, duty, work, proc, edu, skill, scrape>>

\* matcher.similarity raises: nothing in aggregate_months_by_title catches it
AggMatcherRaises ==
    /\ AggInLoop
    /\ ~AggSkips(AggCur)
    /\ agg.matcher = "any"
    /\ agg.clusters # <<>>
    /\ agg' = [agg EXCEPT !.pc = "raised", !.last = <<>>]
    /\ UNCHANGED <<dur, duty, work, proc, edu, skill, scrape>>

AggReturn ==
    /\ agg.pc = "loop"
    /\ agg.i > Len(agg.work_items)
    /\ agg' = [agg EXCEPT !.pc = "done", !.out = Finalize(agg.clusters), !.last = <<>>]
    /\ UNCHANGED <<dur, duty, work, proc, edu, skill, scrape>>

NextAgg == AggSkip \/ AggExact \/ AggSemantic \/ AggMatcherRaises \/ AggReturn

SpecAgg == InitAgg /\ [][NextAgg]_vars

RECURSIVE SumMonthsOf(_, _)
SumMonthsOf(items, K) ==
    IF K = {} THEN 0
    ELSE LET k == CHOOSE x \in K : TRUE
         IN  items[k].months + SumMonthsOf(items, K \ {k})

Eligible(items) == {k \in 1..Len(items) : ~AggSkips(items[k])}

\* C7: at the end of aggregate_months_by_title, in both modes, every entry
\* with a non-empty normalized title and months > 0 was folded into exactly one
\* cluster (which holds its raw title), no other entry was folded anywhere,
\* each cluster's months are the months of the entries folded into it, and the
\* months of all clusters add up to the months of those entries.
C7_ExactlyOneCluster ==
    agg.pc = "done" =>
        /\ \A k \in Eligible(agg.work_items) :
              /\ Cardinality(agg.folded[k]) = 1
              /\ \A j \in agg.folded[k] :
                    Strip(agg.work_items[k].title) \in agg.clusters[j].titles
        /\ \A k \in (1..Len(agg.work_items)) \ Eligible(agg.work_items) :
              agg.folded[k] = {}
        /\ \A j \in 1..Len(agg.clusters) :
              agg.clusters[j].months =
                 SumMonthsOf(agg.work_items,
                             {k \in 1..Len(agg.work_items) : agg.folded[k] = {j}})
        /\ SumSeq([j \in 1..Len(agg.out) |-> agg.out[j].months])
              = SumMonthsOf(agg.work_items, Eligible(agg.work_items))

\* an oracle run that ends with two clusters, one of which took two entries
C7_Witness ==
    /\ agg.pc = "done"
    /\ agg.matcher = "any"
    /\ Len(agg.clusters) = 2
    /\ \E k, l \in Eligible(agg.work_items) : k # l /\ agg.folded[k] = agg.folded[l]

Perms(n) == {f \in [1..n -> 1..n] : \A x, y \in 1..n : f[x] = f[y] => x = y}

Permute(s, f) == [k \in 1..Len(s) |-> s[f[k]]]

KeyMonths(out) == {<<out[j].position, out[j].months>> : j \in 1..Len(out)}

\* C8: with no oracle, two entries whose titles are equal after norm_title
\* land in the same cluster, and the mapping from normalized key to
\* accumulated months is the same for every permutation of the input.
C8_OrderIndependent ==
    (agg.pc = "done" /\ agg.matcher = "none") =>
        /\ \A k, l \in Eligible(agg.work_items) :
              norm_title(Strip(agg.work_items[k].title))
                 = norm_title(Strip(agg.work_items[l].title))
              => agg.folded[k] = agg.folded[l]
        /\ Cardinality({agg.out[j].position : j \in 1..Len(agg.out)}) = Len(agg.out)
        /\ \A f \in Perms(Len(agg.work_items)) :
              KeyMonths(aggregate_months_by_title(Permute(agg.work_items, f), "none"))
                 = KeyMonths(agg.out)

\* an exact-key run in which two entries with different raw titles and the same
\* key were merged although an entry with another key came between them
C8_Witness ==
    /\ agg.pc = "done"
    /\ agg.matcher = "none"
    /\ Len(agg.work_items) = 3
    /\ Eligible(agg.work_items) = {1, 2, 3}
    /\ agg.folded[1] = agg.folded[3]
    /\ agg.folded[1] # agg.folded[2]
    /\ Strip(agg.work_items[1].title) # Strip(agg.work_items[3].title)

RawDeterminedByKey(items) ==
    \A k, l \in Eligible(items) :
        norm_title(Strip(items[k].title)) = norm_title(Strip(items[l].title))
        => Strip(items[k].title) = Strip(items[l].title)

WordToks == {"w", "T", "H", "a", "b", "A", "B", "W", "z", "po", "nyni", "cr", "dr", "tov"}
               \cup {"C", "D", "E", "c", "d", "e", "kat", "uni", "hi", "pos", "en", "mid", "up"}
               \cup Range(Digits)

BulletGlyphs == {"-", "*"}

DashChars == {" ", "-", "\t"}

\* len(re.findall(r"\w+", s)): the maximal runs of word tokens, a "T" adding
\* its nine further words
RECURSIVE WordRuns(_, _)
WordRuns(s, inword) ==
    IF s = <<>> THEN 0
    ELSE IF Head(s) \in WordToks
         THEN (IF inword THEN 0 ELSE 1) + (IF Head(s) = "T" THEN 9 ELSE 0)
              + WordRuns(Tail(s), TRUE)
         ELSE WordRuns(Tail(s), FALSE)

WordCount(s) == WordRuns(s, FALSE)

\* s.count(",")
CommaCount(s) == Cardinality({i \in 1..Len(s) : s[i] = ","})

\* DUTIES_PREFIX_RE.match: ^\s*(keyword)\s*:\s*
has_duties_prefix(s) ==
    LET a == LStrip(s)
    IN  /\ a # <<>> /\ Head(a) = "H"
        /\ LET b == LStrip(Tail(a)) IN b # <<>> /\ Head(b) = ":"

\* HEADER_PREFIX_RE.sub("", s.strip()): ^\s*(keyword)\s*:?\s*
strip_headers(s) ==
    LET a == Strip(s)
    IN  IF a # <<>> /\ Head(a) = "H"
        THEN LET b == LStrip(Tail(a))
             IN  IF b # <<>> /\ Head(b) = ":" THEN LStrip(Tail(b)) ELSE b
        ELSE a

\* s.lower() in {"обов'язки", "обовязки", "обязанности", "особисті якості"}
IsHeaderWord(s) == s = <<"H">>

\* _BULLET_PREFIX_RE.match(line.strip()) (the second definition of is_bullet_line)
is_bullet_line(ln) ==
    LET a == Strip(ln) IN a # <<>> /\ Head(a) \in BulletGlyphs

RECURSIVE DropGlyphs(_)
DropGlyphs(s) == IF s # <<>> /\ Head(s) \in BulletGlyphs THEN DropGlyphs(Tail(s)) ELSE s

\* BULLET_RE.sub("", s.strip()): ^\s*([•\-\*]+|\d+[\.\)\:])\s+
clean_bullet_prefix(s) ==
    LET a == Strip(s)
        b == DropGlyphs(a)
    IN  IF a # <<>> /\ Head(a) \in BulletGlyphs /\ b # <<>> /\ IsSpace(Head(b))
        THEN LStrip(b)
        ELSE a

\* str.strip(chars)
RECURSIVE LStripChars(_, _)
LStripChars(s, cs) == IF s # <<>> /\ Head(s) \in cs THEN LStripChars(Tail(s), cs) ELSE s

RECURSIVE RStripChars(_, _)
RStripChars(s, cs) ==
    IF s # <<>> /\ s[Len(s)] \in cs THEN RStripChars(SubSeq(s, 1, Len(s) - 1), cs) ELSE s

StripChars(s, cs) == RStripChars(LStripChars(s, cs), cs)

\* split_outside_parens: the loop over the characters, then the tail
RECURSIVE SplitScan(_, _, _, _, _)
SplitScan(text, seps, out, buf, depth) ==
    IF text = <<>> THEN [out |-> out, buf |-> buf]
    ELSE LET ch == Head(text)
             d == IF ch = "(" THEN depth + 1
                  ELSE IF ch = ")" THEN Max2(0, depth - 1) ELSE depth
         IN  IF d = 0 /\ ch \in seps
             THEN SplitScan(Tail(text), seps,
                            IF Strip(buf) # <<>> THEN Append(out, Strip(buf)) ELSE out,
                            <<>>, d)
             ELSE SplitScan(Tail(text), seps, out, Append(buf, ch), d)

split_outside_parens_notail(text, seps) == SplitScan(text, seps, <<>>, <<>>, 0).out

split_outside_parens(text, seps) ==
    LET r == SplitScan(text, seps, <<>>, <<>>, 0)
    IN  IF Strip(r.buf) # <<>> THEN Append(r.out, Strip(r.buf)) ELSE r.out

\* s.splitlines(): the texts between the newlines; a final newline ends the
\* last line and opens no other
SplitLines(s) ==
    LET nl == {i \in 1..Len(s) : s[i] = "\n"}
        n == Cardinality(nl)
        pos(k) == IF k = 0 THEN 0
                  ELSE IF k > n THEN Len(s) + 1
                  ELSE CHOOSE i \in nl : Cardinality({j \in nl : j < i}) = k - 1
        count == IF s # <<>> /\ s[Len(s)] # "\n" THEN n + 1 ELSE n
    IN  [k \in 1..count |-> SubSeq(s, pos(k - 1) + 1, pos(k) - 1)]

\* " ".join(lines)
RECURSIVE JoinBlank(_)
JoinBlank(lines) ==
    IF lines = <<>> THEN <<>>
    ELSE IF Len(lines) = 1 THEN lines[1]
         ELSE lines[1] \o <<" ">> \o JoinBlank(Tail(lines))

\* [f(x) for x in s if keep(f(x))] for the list comprehensions of split_duties
RECURSIVE StrippedNonEmpty(_)
StrippedNonEmpty(lines) ==
    IF lines = <<>> THEN <<>>
    ELSE (IF Strip(Head(lines)) # <<>> THEN <<Strip(Head(lines))>> ELSE <<>>)
         \o StrippedNonEmpty(Tail(lines))

RECURSIVE HeaderFree(_)
HeaderFree(lines) ==
    IF lines = <<>> THEN <<>>
    ELSE LET ln == strip_headers(Head(lines))
         IN  (IF ln # <<>> /\ ~IsHeaderWord(ln) THEN <<ln>> ELSE <<>>)
             \o HeaderFree(Tail(lines))

RECURSIVE BulletItems(_)
BulletItems(lines) ==
    IF lines = <<>> THEN <<>>
    ELSE LET ln == strip_headers(clean_bullet_prefix(Head(lines)))
         IN  (IF is_bullet_line(Head(lines)) /\ ln # <<>> THEN <<ln>> ELSE <<>>)
             \o BulletItems(Tail(lines))

RECURSIVE DashStripped(_)
DashStripped(parts) ==
    IF parts = <<>> THEN <<>>
    ELSE (IF StripChars(Head(parts), DashChars) # <<>>
          THEN <<StripChars(Head(parts), DashChars)>> ELSE <<>>)
         \o DashStripped(Tail(parts))

SentenceSeps == {".", ";"}

AllSeps == {",", ".", ";"}

LongSentenceWords == 10

CommaDivisor == 12

split_duties(text) ==
    LET raw == Strip(text)
        prefixed == has_duties_prefix(raw)
        s == strip_headers(raw)
        lines == HeaderFree(StrippedNonEmpty(SplitLines(s)))
        s1 == Strip(JoinBlank(lines))
        words == WordCount(s1)
        commas == CommaCount(s1)
    IN  IF raw = <<>> THEN <<>>
        ELSE IF s = <<>> \/ IsHeaderWord(s) THEN <<>>
        ELSE IF lines = <<>> THEN <<>>
        ELSE IF \E i \in 1..Len(lines) : is_bullet_line(lines[i]) THEN BulletItems(lines)
        ELSE IF s1 = <<>> THEN <<>>
        ELSE IF prefixed THEN DashStripped(split_outside_parens(s1, SentenceSeps))
        ELSE IF words >= LongSentenceWords /\ commas <= Max2(1, words \div CommaDivisor)
             THEN DashStripped(split_outside_parens(s1, SentenceSeps))
        ELSE DashStripped(split_outside_parens(s1, AllSeps))

\* --- the duty-splitter specification: split_duties on a text, then
\* --- split_duties again on every item it returned
MaxDutyLen == 4

DutyAlphabet == {"w", "T", "H", ",", ".", "(", ")", ":", "-", "*", " ", "_", "\n"}

InitDuty ==
    /\ \E t \in SeqsUpTo(DutyAlphabet, MaxDutyLen) :
         duty = [pc |-> "call", text |-> t, out |-> None, again |-> None]
    /\ dur = Off /\ agg = Off /\ work = Off /\ proc = Off /\ edu = Off /\ skill = Off /\ scrape = Off

SplitDuties ==
    /\ duty.pc = "call"
    /\ duty' = [duty EXCEPT !.pc = "split", !.out = split_duties(duty.text)]
    /\ UNCHANGED <<dur, agg, work, proc, edu, skill, scrape>>

SplitAgain ==
    /\ duty.pc = "split"
    /\ duty' = [duty EXCEPT !.pc = "done",
                            !.again = [i \in 1..Len(duty.out) |-> split_duties(duty.out[i])]]
    /\ UNCHANGED <<dur, agg, work, proc, edu, skill, scrape>>

NextDuty == SplitDuties \/ SplitAgain

SpecDuty == InitDuty /\ [][NextDuty]_vars

\* C10 as stated: for every text t and every item d in split_duties(t),
\* split_duties(d) returns exactly [d].
C10_Idempotent ==
    duty.pc = "done" => \A i \in 1..Len(duty.out) : duty.again[i] = <<duty.out[i]>>

\* parenthesis depth after the first n characters of d (never below zero)
RECURSIVE ParenDepth(_, _)
ParenDepth(d, n) ==
    IF n = 0 THEN 0
    ELSE IF d[n] = "(" THEN ParenDepth(d, n - 1) + 1
    ELSE IF d[n] = ")" THEN Max2(0, ParenDepth(d, n - 1) - 1)
    ELSE ParenDepth(d, n - 1)

HasSeparatorOutsideParens(d) ==
    \E n \in 1..Len(d) : d[n] \in {",", ".", ";"} /\ ParenDepth(d, n) = 0

SingleDuty(d) ==
    /\ ~HasSeparatorOutsideParens(d)
    /\ Head(d) \notin {"H", "-", "*"}
    /\ d[Len(d)] # "-"
    /\ ~IsSpace(Head(d)) /\ ~IsSpace(d[Len(d)])

\* C10 (amended): for every text t and every item d in split_duties(t) that
\* has no comma, period or semicolon outside parentheses, does not begin with
\* a header keyword, a bullet glyph or a dash, does not end with a dash and
\* neither begins nor ends with whitespace, split_duties(d) returns exactly [d].
C10_IdempotentOnSingleDuty ==
    duty.pc = "done" =>
        \A i \in 1..Len(duty.out) :
            SingleDuty(duty.out[i]) => duty.again[i] = <<duty.out[i]>>

\* a text that was split into two items, one of them with a comma kept inside
\* parentheses, each returned unchanged by the second split
C10_Witness ==
    /\ duty.pc = "done"
    /\ Len(duty.out) = 2
    /\ \A i \in 1..2 : SingleDuty(duty.out[i]) /\ duty.again[i] = <<duty.out[i]>>
    /\ \E i \in 1..2 : "(" \in Range(duty.out[i])

\* ------------------------------------------------------------------------
\* Work-experience parser (regex_extractor.py): line classification
\* ------------------------------------------------------------------------
IsWordAt(s, i) == i >= 1 /\ i <= Len(s) /\ s[i] \in WordToks

DigitsAt(s, i, n) == i >= 1 /\ i + n - 1 <= Len(s) /\ \A k \in i..(i + n - 1) : IsDigit(s[k])

\* \b kw \b at position i
KeywordAt(s, i, kws) ==
    /\ i >= 1 /\ i <= Len(s) /\ s[i] \in kws
    /\ ~IsWordAt(s, i - 1) /\ ~IsWordAt(s, i + 1)

HasKeyword(s, kws) == \E i \in 1..Len(s) : KeywordAt(s, i, kws)

\* _RE_MMYYYY = (\d{2})\.(\d{4}) at position i
DateAt(s, i) == DigitsAt(s, i, 2) /\ i + 6 <= Len(s) /\ s[i + 2] = "." /\ DigitsAt(s, i + 3, 4)

\* list(_RE_MMYYYY.finditer(t)): the start positions, leftmost, not overlapping
RECURSIVE FindDates(_, _)
FindDates(s, i) ==
    IF i > Len(s) THEN <<>>
    ELSE IF DateAt(s, i) THEN <<i>> \o FindDates(s, i + 7)
         ELSE FindDates(s, i + 1)

\* _to_yyyy_mm(mm, yyyy) of the date at position i
to_yyyy_mm(s, i) == SubSeq(s, i + 3, i + 6) \o <<"-">> \o SubSeq(s, i, i + 1)

FromWords == {"z"}

ToWords == {"po"}

PresentWords == {"nyni"}

Present == <<"present">>

is_dates_meta_line(line) ==
    LET t == Strip(line)
    IN  /\ t # <<>>
        /\ HasKeyword(t, FromWords)
        /\ HasKeyword(t, ToWords)
        /\ FindDates(t, 1) # <<>>

TitleMaxLen == 80

looks_like_title(line) ==
    LET t == Strip(line)
    IN  t # <<>> /\ ~is_dates_meta_line(t) /\ TextLen(t) <= TitleMaxLen

\* _IGNORE_HEADERS_RE: ^\s*(header)\s*:?\s*$
is_ignorable_header_line(line) ==
    LET t == Strip(line)
    IN  t # <<>> /\ Head(t) = "H" /\ Strip(Tail(t)) \in {<<>>, <<":">>}

\* ------------------------------------------------------------------------
\* parse_dates_meta_line
\* ------------------------------------------------------------------------
\* position of the first ")" at or after i, 0 if none
RECURSIVE NextClose(_, _)
NextClose(s, i) ==
    IF i > Len(s) THEN 0 ELSE IF s[i] = ")" THEN i ELSE NextClose(s, i + 1)

\* re.search(r"\([^)]*\)\s*(.*)$", t): the text after the first (...) group,
\* Nil when there is no such group
AfterFirstParen(t) ==
    LET p == IndexOf(t, "(")
        q == IF p = 0 THEN 0 ELSE NextClose(t, p + 1)
    IN  IF q = 0 THEN Nil ELSE Strip(SubSeq(t, q + 1, Len(t)))

\* re.search(r"\b(по|до)\b\s*(?:\d{2}\.\d{4}|нині|...)\s*(.*)$", t): the text
\* after "to DATE", Nil when the line has none
RECURSIVE AfterToDateFrom(_, _)
AfterToDateFrom(t, i) ==
    IF i > Len(t) THEN Nil
    ELSE LET rest == LStrip(SubSeq(t, i + 1, Len(t)))
         IN  IF KeywordAt(t, i, ToWords) /\ DateAt(rest, 1)
             THEN Strip(SubSeq(rest, 8, Len(rest)))
             ELSE IF KeywordAt(t, i, ToWords) /\ rest # <<>> /\ Head(rest) \in PresentWords
             THEN Strip(Tail(rest))
             ELSE AfterToDateFrom(t, i + 1)

\* position of the "(" that opens a trailing (...) group without nested
\* parentheses, 0 if s does not end with such a group
RECURSIVE OpenOfTail(_, _)
OpenOfTail(s, i) ==
    IF i < 1 THEN 0
    ELSE IF s[i] = "(" THEN i
    ELSE IF s[i] = ")" THEN 0
    ELSE OpenOfTail(s, i - 1)

\* split_tail_parentheses: [base, parens]
RECURSIVE TailParens(_, _)
TailParens(s, parens) ==
    LET r == RStrip(s)
        p == IF r # <<>> /\ r[Len(r)] = ")" THEN OpenOfTail(r, Len(r) - 1) ELSE 0
    IN  IF p = 0 THEN [base |-> s, parens |-> parens]
        ELSE TailParens(RStrip(SubSeq(r, 1, p - 1)),
                        <<Strip(SubSeq(r, p + 1, Len(r) - 1))>> \o parens)

split_tail_parentheses(meta) == TailParens(Strip(meta), <<>>)

\* s.split(sep): the pieces between the separators (always at least one)
RECURSIVE SplitOn(_, _, _)
SplitOn(s, sep, cur) ==
    IF s = <<>> THEN <<cur>>
    ELSE IF Head(s) = sep THEN <<cur>> \o SplitOn(Tail(s), sep, <<>>)
         ELSE SplitOn(Tail(s), sep, Append(cur, Head(s)))

\* ", ".join(parts)
RECURSIVE JoinComma(_)
JoinComma(parts) ==
    IF parts = <<>> THEN <<>>
    ELSE IF Len(parts) = 1 THEN parts[1]
         ELSE parts[1] \o <<",", " ">> \o JoinComma(Tail(parts))

OpfTokens == {"tov"}

QuoteChars == {"\""}

\* len([w for w in re.split(r"\s+", low) if w]); the ten-word phrase "T"
\* holds nine blanks of its own
RECURSIVE BlankRuns(_, _)
BlankRuns(s, inword) ==
    IF s = <<>> THEN 0
    ELSE IF IsSpace(Head(s)) THEN BlankRuns(Tail(s), FALSE)
         ELSE (IF inword THEN 0 ELSE 1) + (IF Head(s) = "T" THEN 9 ELSE 0)
              + BlankRuns(Tail(s), TRUE)

CityMaxWords == 2

looks_like_city(token) ==
    LET t == Strip(token)
        low == StripChars(LowerStr(t), {" ", "\"", "'", "(", ")"})
    IN  /\ t # <<>>
        /\ ~(Len(low) = 1 /\ low[1] \in OpfTokens)
        /\ ~(\E i \in 1..Len(t) : t[i] \in QuoteChars \/ IsDigit(t[i]))
        /\ BlankRuns(low, FALSE) <= CityMaxWords

\* parse_dates_meta_line(line), with the clock's current month now_ym
parse_dates_meta_line(line, now_ym) ==
    LET t == Strip(line)
        dates == FindDates(t, 1)
        start == IF dates # <<>> THEN to_yyyy_mm(t, dates[1]) ELSE <<>>
        end == IF Len(dates) >= 2 THEN to_yyyy_mm(t, dates[2])
               ELSE IF HasKeyword(t, PresentWords) THEN Present ELSE <<>>
        end_ym == IF end = Present THEN now_ym ELSE end
        meta_part == IF AfterFirstParen(t) # Nil THEN AfterFirstParen(t)
                     ELSE IF AfterToDateFrom(t, 1) # Nil THEN AfterToDateFrom(t, 1)
                     ELSE t
        tp == split_tail_parentheses(meta_part)
        parens == tp.parens
        industry == IF parens # <<>> THEN parens[Len(parens)] ELSE Nil
        region == IF Len(parens) >= 2 THEN parens[1] ELSE Nil
        parts == StrippedNonEmpty(SplitOn(tp.base, ",", <<>>))
        cityfound == Len(parts) >= 2 /\ looks_like_city(parts[Len(parts)])
        company == IF parts = <<>> THEN Nil
                   ELSE IF cityfound THEN Strip(JoinComma(SubSeq(parts, 1, Len(parts) - 1)))
                   ELSE Strip(JoinComma(parts))
        city == IF region # Nil /\ region # <<>> THEN region
                ELSE IF cityfound THEN parts[Len(parts)] ELSE Nil
    IN  [start |-> start, end |-> end, months |-> calc_months(start, end_ym),
         company |-> company, city |-> city, industry |-> industry]

\* ------------------------------------------------------------------------
\* Role splitting of a multi-role title
\* ------------------------------------------------------------------------
RoleSeps == {"-", "/"}

RoleMinLen == 2

\* re.split(r"\s*(?:-|–|—|/)\s*", t)
RECURSIVE SplitOnAny(_, _, _)
SplitOnAny(s, seps, cur) ==
    IF s = <<>> THEN <<cur>>
    ELSE IF Head(s) \in seps THEN <<cur>> \o SplitOnAny(Tail(s), seps, <<>>)
         ELSE SplitOnAny(Tail(s), seps, Append(cur, Head(s)))

\* the dedup loop: keeps the first of the parts equal in lower case
RECURSIVE DedupLower(_, _)
DedupLower(parts, seen) ==
    IF parts = <<>> THEN <<>>
    ELSE IF LowerStr(Head(parts)) \in seen THEN DedupLower(Tail(parts), seen)
         ELSE <<Head(parts)>> \o DedupLower(Tail(parts), seen \cup {LowerStr(Head(parts))})

split_title_into_role_candidates(title) ==
    LET t == Strip(title)
        parts == StrippedNonEmpty(SplitOnAny(t, RoleSeps, <<>>))
        sized == SelectSeq(parts, LAMBDA q : TextLen(q) >= RoleMinLen /\ TextLen(q) <= TitleMaxLen)
    IN  DedupLower(sized, {})

normalize_ws(s) == CollapseWs(Strip(s))

RolePrefixes == {"-", ":", "("}

\* first index at or after i that does not hold whitespace
RECURSIVE SkipSpaces(_, _)
SkipSpaces(s, i) == IF i <= Len(s) /\ IsSpace(s[i]) THEN SkipSpaces(s, i + 1) ELSE i

\* (?i)(?<!\w)ROLE(?!\w)\s*(?:-|–|—|:|\() matched at position i: the index
\* after the match, 0 when there is no match at i
RoleMatchEnd(dt, i, role) ==
    LET e == i + Len(role)
        j == SkipSpaces(dt, e)
    IN  IF /\ e - 1 <= Len(dt)
           /\ LowerStr(SubSeq(dt, i, e - 1)) = LowerStr(role)
           /\ ~IsWordAt(dt, i - 1) /\ ~IsWordAt(dt, e)
           /\ j <= Len(dt) /\ dt[j] \in RolePrefixes
        THEN j + 1 ELSE 0

\* _find_role_prefix_positions(dt, role)[0], 0 when the list is empty
RECURSIVE FirstRolePos(_, _, _)
FirstRolePos(dt, role, i) ==
    IF i > Len(dt) THEN 0
    ELSE IF RoleMatchEnd(dt, i, role) # 0 THEN i ELSE FirstRolePos(dt, role, i + 1)

\* hits.sort(key=lambda x: x[0]), a stable sort
RECURSIVE InsertHit(_, _)
InsertHit(sorted, h) ==
    IF sorted = <<>> THEN <<h>>
    ELSE IF h.pos < Head(sorted).pos THEN <<h>> \o sorted
         ELSE <<Head(sorted)>> \o InsertHit(Tail(sorted), h)

RECURSIVE SortHits(_)
SortHits(hits) ==
    IF hits = <<>> THEN <<>>
    ELSE InsertHit(SortHits(SubSeq(hits, 1, Len(hits) - 1)), hits[Len(hits)])

\* dt[a:b] of Python for 1-based a and exclusive b
Slice(s, a, b) == IF b <= a THEN <<>> ELSE SubSeq(s, a, b - 1)

\* _split_duties_by_role_prefixes: the (role, text) segments; the empty
\* list stands for None, which the caller does not tell from it
split_duties_by_role_prefixes(title, duties_text) ==
    LET roles == split_title_into_role_candidates(title)
        dt == normalize_ws(duties_text)
        hits == SortHits([k \in 1..Len(roles) |->
                            [pos |-> FirstRolePos(dt, roles[k], 1), role |-> roles[k]]])
        seg(k) == LET seg_start == RoleMatchEnd(dt, hits[k].pos, hits[k].role)
                      seg_end == IF k = Len(hits) THEN Len(dt) + 1 ELSE hits[k + 1].pos
                  IN  Strip(Slice(dt, seg_start, seg_end))
    IN  IF Len(roles) < 2 \/ dt = <<>> THEN <<>>
        ELSE IF \E k \in 1..Len(roles) : FirstRolePos(dt, roles[k], 1) = 0 THEN <<>>
        ELSE IF \E k \in 1..Len(hits) : seg(k) = <<>> THEN <<>>
        ELSE [k \in 1..Len(hits) |-> [role |-> Strip(hits[k].role), text |-> seg(k)]]

NonEmptyDashStripped(parts) ==
    SelectSeq([k \in 1..Len(parts) |-> StripChars(parts[k], {" ", "-", "\t", ","})],
              LAMBDA q : q # <<>>)

split_duties_strict_dot_semi(text) ==
    LET t == normalize_ws(text)
    IN  IF t = <<>> THEN <<>>
        ELSE NonEmptyDashStripped(split_outside_parens(t, SentenceSeps))

\* ------------------------------------------------------------------------
\* Fallback A: parse_inline_title_dates_meta
\* ------------------------------------------------------------------------
InlineDatesMin == 3

InlineDatesMax == 50

InlineIndustryMin == 2

InlineIndustryMax == 120

\* the "(" of ^(title).+?\s*\((dates)[^)]{3,50}\)...: the first one, not at
\* the start, whose text up to the next ")" has 3 to 50 characters; 0 if none
RECURSIVE InlineOpen(_, _)
InlineOpen(s, p) ==
    IF p > Len(s) THEN 0
    ELSE LET q == NextClose(s, p + 1)
             n == TextLen(SubSeq(s, p + 1, q - 1))
         IN  IF s[p] = "(" /\ q # 0 /\ n >= InlineDatesMin /\ n <= InlineDatesMax
             THEN p ELSE InlineOpen(s, p + 1)

\* _INLINE_YEARS_RE matched at position i of d: <<start, end>>, <<>> if not
InlineYearsAt(d, i) ==
    LET j == SkipSpaces(d, i + 4)
        e == SkipSpaces(d, j + 1)
    IN  IF ~(DigitsAt(d, i, 4) /\ j <= Len(d) /\ d[j] = "-") THEN <<>>
        ELSE IF DigitsAt(d, e, 4) /\ ~IsWordAt(d, e + 4)
             THEN <<SubSeq(d, i, i + 3), SubSeq(d, e, e + 3)>>
        ELSE IF e <= Len(d) /\ d[e] \in PresentWords /\ ~IsWordAt(d, e + 1)
             THEN <<SubSeq(d, i, i + 3), Present>>
        ELSE <<>>

RECURSIVE InlineYears(_, _)
InlineYears(d, i) ==
    IF i > Len(d) THEN <<>>
    ELSE IF InlineYearsAt(d, i) # <<>> THEN InlineYearsAt(d, i) ELSE InlineYears(d, i + 1)

\* the "(" of the optional trailing (industry) group of rest, 0 if none
RECURSIVE IndustryOpen(_, _)
IndustryOpen(rest, p) ==
    IF p > Len(rest) THEN 0
    ELSE LET n == TextLen(SubSeq(rest, p + 1, Len(rest) - 1))
         IN  IF /\ rest[p] = "(" /\ NextClose(rest, p + 1) = Len(rest)
                /\ n >= InlineIndustryMin /\ n <= InlineIndustryMax
             THEN p ELSE IndustryOpen(rest, p + 1)

OrNil(s) == IF s = <<>> THEN Nil ELSE s

\* parse_inline_title_dates_meta(line): the tuple as a one-record list; the
\* empty list stands for None, which the caller does not tell from it
parse_inline_title_dates_meta(line, now_ym) ==
    LET s == Strip(line)
        p == IF s = <<>> THEN 0 ELSE InlineOpen(s, 2)
        q == NextClose(s, p + 1)
        title == Strip(SubSeq(s, 1, p - 1))
        dates_part == Strip(SubSeq(s, p + 1, q - 1))
        rest == Strip(SubSeq(s, q + 1, Len(s)))
        m2 == InlineYears(dates_part, 1)
        start_ym == Fmt4(ParseInt(m2[1])) \o <<"-", "0", "1">>
        end_norm == IF m2[2] = Present THEN Present
                    ELSE Fmt4(ParseInt(m2[2])) \o <<"-", "1", "2">>
        months == calc_months(start_ym, IF m2[2] = Present THEN now_ym ELSE end_norm)
        o == IF rest = <<>> THEN 0 ELSE IndustryOpen(rest, 1)
        company == IF rest = <<>> THEN Nil
                   ELSE IF o = 0 THEN OrNil(rest)
                   ELSE OrNil(Strip(SubSeq(rest, 1, o - 1)))
        industry == IF rest = <<>> \/ o = 0 THEN Nil
                    ELSE OrNil(Strip(SubSeq(rest, o + 1, Len(rest) - 1)))
    IN  IF p = 0 THEN <<>>
        ELSE IF m2 = <<>> THEN <<>>
        ELSE <<[title |-> title, start |-> start_ym, end |-> end_norm,
                months |-> months, company |-> company, industry |-> industry]>>

\* ------------------------------------------------------------------------
\* Fallback B: parse_one_line_date_entries
\* ------------------------------------------------------------------------
\* \d{1,2}\. at position i: the number of digits taken, 0 when it does not match
DayDigitsAt(t, i) ==
    IF DigitsAt(t, i, 2) /\ i + 2 <= Len(t) /\ t[i + 2] = "." THEN 2
    ELSE IF DigitsAt(t, i, 1) /\ i + 1 <= Len(t) /\ t[i + 1] = "." THEN 1
    ELSE 0

\* \d{2,4} at position i, greedy: the number of digits taken, 0 when fewer than 2
YearDigitsAt(t, i) ==
    IF DigitsAt(t, i, 4) THEN 4
    ELSE IF DigitsAt(t, i, 3) THEN 3
    ELSE IF DigitsAt(t, i, 2) THEN 2
    ELSE 0

\* s.zfill(n)
RECURSIVE ZFill(_, _)
ZFill(s, n) == IF Len(s) >= n THEN s ELSE ZFill(<<"0">> \o s, n)

\* (\d{1,2})\.(\d{1,2})\.(\d{2,4}) at position i: "YYYY-MM" or <<>>
DmyAt(t, i) ==
    LET a == DayDigitsAt(t, i)
        b == DayDigitsAt(t, i + a + 1)
        y == i + a + 1 + b + 1
        c == YearDigitsAt(t, y)
        yy == SubSeq(t, y, y + c - 1)
        mm == SubSeq(t, i + a + 1, i + a + b)
    IN  IF a = 0 \/ b = 0 \/ c = 0 THEN <<>>
        ELSE ZFill(IF c = 2 THEN <<"1", "9">> \o yy ELSE yy, 4) \o <<"-">> \o ZFill(mm, 2)

\* (\d{1,2})\.(\d{4}) at position i: "YYYY-MM" or <<>>
MyAt(t, i) ==
    LET a == DayDigitsAt(t, i)
    IN  IF a = 0 \/ ~DigitsAt(t, i + a + 1, 4) THEN <<>>
        ELSE SubSeq(t, i + a + 1, i + a + 4) \o <<"-">> \o ZFill(SubSeq(t, i, i + a - 1), 2)

RECURSIVE FirstDmy(_, _)
FirstDmy(t, i) ==
    IF i > Len(t) THEN <<>>
    ELSE IF DmyAt(t, i) # <<>> THEN DmyAt(t, i) ELSE FirstDmy(t, i + 1)

RECURSIVE FirstMy(_, _)
FirstMy(t, i) ==
    IF i > Len(t) THEN <<>>
    ELSE IF MyAt(t, i) # <<>> THEN MyAt(t, i) ELSE FirstMy(t, i + 1)

normalize_date_token(tok) ==
    LET t == Strip(LowerStr(Strip(tok)))
    IN  IF FirstDmy(t, 1) # <<>> THEN FirstDmy(t, 1)
        ELSE IF FirstMy(t, 1) # <<>> THEN FirstMy(t, 1)
        ELSE IF \E i \in 1..Len(t) : t[i] \in PresentWords THEN Present
        ELSE Nil

\* DATE_PAIR_LINE_RE: the position of the "to" keyword the match settles on
\* (group 2 lazy after greedy blanks), 0 when the line does not match
IsToAt(s, p) ==
    /\ p >= 5 /\ p + 1 <= Len(s) /\ s[p] \in ToWords
    /\ IsSpace(s[p - 1]) /\ IsSpace(s[p + 1])

\* the dash that closes group 4 for the "to" keyword at p, 0 if none
RECURSIVE FirstDashAfter(_, _)
FirstDashAfter(s, i) ==
    IF i >= Len(s) THEN 0
    ELSE IF s[i] = "-" THEN i ELSE FirstDashAfter(s, i + 1)

DashFor(s, p) ==
    LET a == SkipSpaces(s, p + 1)
        d == FirstDashAfter(s, a + 1)
    IN  IF d # 0 THEN d
        ELSE IF a >= p + 3 /\ a < Len(s) /\ s[a] = "-" THEN a
        ELSE 0

RECURSIVE FirstToFrom(_, _)
FirstToFrom(s, p) ==
    IF p > Len(s) THEN 0
    ELSE IF IsToAt(s, p) /\ DashFor(s, p) # 0 THEN p ELSE FirstToFrom(s, p + 1)

DatePairTo(s) ==
    LET a == SkipSpaces(s, 2)
    IN  IF ~(Len(s) >= 2 /\ s[1] \in FromWords /\ IsSpace(s[2])) THEN 0
        ELSE IF FirstToFrom(s, a + 2) # 0 THEN FirstToFrom(s, a + 2)
        ELSE IF IsToAt(s, a) /\ DashFor(s, a) # 0 THEN a
        ELSE 0

\* ((?:ТОВ|...)\s+.+)$ searched in rest: the position of the suffix, 0 if none
RECURSIVE OpfPos(_, _)
OpfPos(rest, i) ==
    IF i + 2 > Len(rest) THEN 0
    ELSE IF rest[i] \in OpfTokens /\ IsSpace(rest[i + 1]) THEN i ELSE OpfPos(rest, i + 1)

\* the WorkItem that parse_one_line_date_entries builds from a matching line
OneLineEntry(ln) ==
    LET p == DatePairTo(ln)
        d == DashFor(ln, p)
        start == normalize_date_token(SubSeq(ln, 3, p - 1))
        end == normalize_date_token(SubSeq(ln, p + 1, d - 1))
        rest == Strip(SubSeq(ln, d + 1, Len(ln)))
        candidates == StrippedNonEmpty(SplitOn(rest, ",", <<>>))
        last == candidates[Len(candidates)]
        bylast == /\ Len(candidates) >= 2
                  /\ \E i \in 1..Len(last) : last[i] \in OpfTokens \cup QuoteChars
        o == OpfPos(rest, 1)
        company == IF bylast THEN last
                   ELSE IF o # 0 THEN Strip(SubSeq(rest, o, Len(rest)))
                   ELSE Nil
        title == IF bylast THEN JoinComma(SubSeq(candidates, 1, Len(candidates) - 1))
                 ELSE IF o # 0 THEN StripChars(SubSeq(rest, 1, o - 1), {" ", "-", ","})
                 ELSE rest
    IN  [title |-> title, company |-> company, city |-> Nil, industry |-> Nil,
         start |-> start, end |-> end, months |-> 0, duties |-> <<>>,
         duties_text |-> <<>>, block_text |-> Strip(ln)]

RECURSIVE parse_one_line_date_entries(_)
parse_one_line_date_entries(lines) ==
    IF lines = <<>> THEN <<>>
    ELSE (IF DatePairTo(Head(lines)) # 0 THEN <<OneLineEntry(Head(lines))>> ELSE <<>>)
         \o parse_one_line_date_entries(Tail(lines))

\* ------------------------------------------------------------------------
\* parse_work_experience_section
\* ------------------------------------------------------------------------
\* "\n".join(lines)
RECURSIVE JoinNewline(_)
JoinNewline(lines) ==
    IF lines = <<>> THEN <<>>
    ELSE IF Len(lines) = 1 THEN lines[1]
         ELSE lines[1] \o <<"\n">> \o JoinNewline(Tail(lines))

WorkItem(title, meta, duties, duties_text, block_text) ==
    [title |-> title, company |-> meta.company, city |-> meta.city,
     industry |-> meta.industry, start |-> meta.start, end |-> meta.end,
     months |-> meta.months, duties |-> duties, duties_text |-> duties_text,
     block_text |-> block_text]

\* the inner while loop of the primary parser: [j, duties_acc]
RECURSIVE BlockScan(_, _, _)
BlockScan(lines, j, acc) ==
    IF j > Len(lines) THEN [j |-> j, duties_acc |-> acc]
    ELSE LET cur == Strip(lines[j])
             nxt == IF j + 1 <= Len(lines) THEN Strip(lines[j + 1]) ELSE <<>>
         IN  IF looks_like_title(cur) /\ nxt # <<>> /\ is_dates_meta_line(nxt)
             THEN [j |-> j, duties_acc |-> acc]
             ELSE IF is_dates_meta_line(cur) THEN [j |-> j, duties_acc |-> acc]
             ELSE IF is_ignorable_header_line(cur) THEN BlockScan(lines, j + 1, acc)
             ELSE BlockScan(lines, j + 1, Append(acc, cur))

\* one entry per role segment (lines 840-861)
RoleItems(role_segments, meta) ==
    [k \in 1..Len(role_segments) |->
        WorkItem(role_segments[k].role, meta,
                 split_duties_strict_dot_semi(role_segments[k].text),
                 role_segments[k].text, role_segments[k].text)]

\* the entries the primary parser appends for one block, given the parsed
\* meta line, the joined duties and the role segments
BlockEntries(title, line2, duties_acc, meta, duties_text, role_segments) ==
    IF role_segments # <<>>
    THEN RoleItems(role_segments, meta)
    ELSE <<WorkItem(title, meta, split_duties(duties_text), duties_text,
                    Strip(JoinNewline(<<title, line2>> \o duties_acc)))>>

\* the entries the primary parser appends for one block
BlockItems(title, line2, duties_acc, now_ym) ==
    BlockEntries(title, line2, duties_acc,
                 parse_dates_meta_line(line2, now_ym),
                 Strip(JoinBlank(duties_acc)),
                 split_duties_by_role_prefixes(title, Strip(JoinBlank(duties_acc))))

\* lines = [ln.strip() for ln in text.splitlines()], without the empty ones
WorkLinesOf(text) == StrippedNonEmpty(SplitLines(text))

\* the primary parser opens a block at line i
IsBlockHead(lines, i) ==
    /\ looks_like_title(lines[i])
    /\ i + 1 <= Len(lines) /\ is_dates_meta_line(lines[i + 1])

\* Fallback A passes over line k
InlinePasses(lines, k, now_ym) ==
    \/ is_ignorable_header_line(Strip(lines[k]))
    \/ parse_inline_title_dates_meta(Strip(lines[k]), now_ym) = <<>>

\* --- the parser specification: one call of parse_work_experience_section
\* --- on a text of at most MaxLines lines, with the clock at now_ym
MaxLines == 3

DateTok(m, y) == Fmt2(m) \o <<".">> \o Fmt4(y)

MetaLine(from, to, tail) == <<"z", " ">> \o from \o <<" ", "po", " ">> \o to \o tail

WorkLines ==
    { <<"cr">>,
      <<"cr", " ", "/", " ", "dr">>,
      MetaLine(DateTok(1, FirstYear), DateTok(3, FirstYear),
               <<" ", "(", "w", ")", " ", "w", ",", " ", "w", " ", "(", "w", ")">>),
      MetaLine(DateTok(1, FirstYear), DateTok(3, FirstYear), <<" ", "w", " ", "(", "w", ")">>),
      MetaLine(DateTok(11, FirstYear), <<"nyni">>, <<" ", "w">>),
      MetaLine(DateTok(3, FirstYear), <<"w">>, <<>>),
      MetaLine(DateTok(1, FirstYear), DateTok(3, FirstYear), <<" ", "-", " ", "cr", ",", " ", "tov", " ", "w">>),
      <<"cr", " ", "(">> \o Fmt4(FirstYear) \o <<" ", "-", " ">> \o Fmt4(FirstYear + 1)
          \o <<")", " ", "w", " ", "(", "w", "w", ")">>,
      <<"cr", ":", " ", "w", ",", " ", "w", ".", " ", "dr", " ", "-", " ", "w">>,
      <<"w", ",", " ", "w">>,
      <<"H", ":">> }

NowMonths == {FmtYM(FirstYear, 2), FmtYM(FirstYear + 1, 6)}

InitWork ==
    /\ \E ls \in SeqsUpTo(WorkLines, MaxLines), now \in NowMonths :
         work = [pc |-> "primary", text |-> JoinNewline(ls), now_ym |-> now,
                 lines |-> WorkLinesOf(JoinNewline(ls)), i |-> 1, k |-> 1,
                 items |-> <<>>, strategy |-> "none", exc |-> "none", inline |-> <<>>]
    /\ dur = Off /\ agg = Off /\ duty = Off /\ proc = Off /\ edu = Off /\ skill = Off /\ scrape = Off

\* primary parser, a line that opens no block: i += 1
WorkPrimarySkip ==
    /\ work.pc = "primary" /\ work.i <= Len(work.lines)
    /\ ~IsBlockHead(work.lines, work.i)
    /\ work' = [work EXCEPT !.i = @ + 1]
    /\ UNCHANGED <<dur, agg, duty, proc, edu, skill, scrape>>

\* primary parser, a title line followed by a dates/meta line: one block
WorkPrimaryBlock ==
    /\ work.pc = "primary" /\ work.i <= Len(work.lines)
    /\ IsBlockHead(work.lines, work.i)
    /\ LET scan == BlockScan(work.lines, work.i + 2, <<>>)
       IN  work' = [work EXCEPT
                      !.items = @ \o BlockItems(Strip(work.lines[work.i]), work.lines[work.i + 1],
                                                scan.duties_acc, work.now_ym),
                      !.i = scan.j,
                      !.strategy = "primary"]
    /\ UNCHANGED <<dur, agg, duty, proc, edu, skill, scrape>>

\* the primary parser found entries: they are returned
WorkPrimaryReturn ==
    /\ work.pc = "primary" /\ work.i > Len(work.lines) /\ work.items # <<>>
    /\ work' = [work EXCEPT !.pc = "done"]
    /\ UNCHANGED <<dur, agg, duty, proc, edu, skill, scrape>>

\* the primary parser found nothing: Fallback A starts
WorkFallback_always ==
    /\ work.pc = "primary" /\ work.i > Len(work.lines)
    /\ work' = [work EXCEPT !.pc = "inline"]
    /\ UNCHANGED <<dur, agg, duty, proc, edu, skill, scrape>>

\* the primary parser found nothing: Fallback A starts
WorkFallback ==
    /\ work.pc = "primary" /\ work.i > Len(work.lines) /\ work.items = <<>>
    /\ work' = [work EXCEPT !.pc = "inline"]
    /\ UNCHANGED <<dur, agg, duty, proc, edu, skill, scrape>>

\* Fallback A, a header line or a line that is no inline entry: k += 1
WorkInlineSkip ==
    /\ work.pc = "inline" /\ work.k <= Len(work.lines)
    /\ InlinePasses(work.lines, work.k, work.now_ym)
    /\ work' = [work EXCEPT !.k = @ + 1]
    /\ UNCHANGED <<dur, agg, duty, proc, edu, skill, scrape>>

\* Fallback A, an inline entry: building block_lines reads line2 and
\* duties_acc, locals that only a primary block binds, and no primary block
\* was opened, so the read raises UnboundLocalError
WorkInlineRaise ==
    /\ work.pc = "inline" /\ work.k <= Len(work.lines)
    /\ ~InlinePasses(work.lines, work.k, work.now_ym)
    /\ work' = [work EXCEPT
                  !.pc = "raised", !.exc = "UnboundLocalError", !.strategy = "inline",
                  !.inline = parse_inline_title_dates_meta(Strip(work.lines[work.k]), work.now_ym)]
    /\ UNCHANGED <<dur, agg, duty, proc, edu, skill, scrape>>

\* Fallback A found nothing: Fallback B, and the return
WorkOneLine ==
    /\ work.pc = "inline" /\ work.k > Len(work.lines)
    /\ work' = [work EXCEPT
                  !.pc = "done", !.items = parse_one_line_date_entries(work.lines),
                  !.strategy = IF parse_one_line_date_entries(work.lines) # <<>>
                               THEN "oneline" ELSE "none"]
    /\ UNCHANGED <<dur, agg, duty, proc, edu, skill, scrape>>

NextWork ==
    \/ WorkPrimarySkip
    \/ WorkPrimaryBlock
    \/ WorkPrimaryReturn
    \/ WorkFallback
    \/ WorkInlineSkip
    \/ WorkInlineRaise
    \/ WorkOneLine

SpecWork == InitWork /\ [][NextWork]_vars

\* --- claims about the parser
\* a "YYYY-MM" text, as opposed to an absent, empty or open-ended one
IsYearMonth(x) == Len(x) = 7 /\ DigitsAt(x, 1, 4) /\ x[5] = "-" /\ DigitsAt(x, 6, 2)

MonthIndexOf(ym) == MonthIndex(ParseInt(SubSeq(ym, 1, 4)), ParseInt(SubSeq(ym, 6, 7)))

\* the inclusive month count the entry's own start and end call for
InclusiveMonthsOf(it, now_ym) ==
    LET end_ym == IF it.end = Present THEN now_ym ELSE it.end
    IN  IF ~IsYearMonth(it.start) \/ ~IsYearMonth(end_ym) THEN 0
        ELSE IF MonthIndexOf(end_ym) < MonthIndexOf(it.start) THEN 0
        ELSE MonthIndexOf(end_ym) - MonthIndexOf(it.start) + 1

\* C5: every entry that parse_work_experience_section returns, whichever
\* strategy produced it, has months equal to the inclusive month count between
\* its start and its end when both are resolved (an open end counted to the
\* current month), months = 0 when one of them is unresolved, and months is
\* never negative.  Fallback B returns months = 0 for every entry.
C5_MonthsAreInclusiveSpan ==
    work.pc = "done" =>
        \A k \in 1..Len(work.items) :
            /\ work.items[k].months = InclusiveMonthsOf(work.items[k], work.now_ym)
            /\ work.items[k].months >= 0

\* ------------------------------------------------------------------------
\* parse_work_experience_section as a function: [exc, items]
\* ------------------------------------------------------------------------
\* the while loop of the primary parser from line i on
RECURSIVE PrimaryItems(_, _, _)
PrimaryItems(lines, i, now_ym) ==
    IF i > Len(lines) THEN <<>>
    ELSE IF ~IsBlockHead(lines, i) THEN PrimaryItems(lines, i + 1, now_ym)
    ELSE LET scan == BlockScan(lines, i + 2, <<>>)
         IN  BlockItems(Strip(lines[i]), lines[i + 1], scan.duties_acc, now_ym)
             \o PrimaryItems(lines, scan.j, now_ym)

WorkResult(lines, items, now_ym) ==
    IF items # <<>> THEN [exc |-> "none", items |-> items]
    ELSE IF \E k \in 1..Len(lines) : ~InlinePasses(lines, k, now_ym)
         THEN [exc |-> "UnboundLocalError", items |-> <<>>]
    ELSE [exc |-> "none", items |-> parse_one_line_date_entries(lines)]

parse_work_experience_section(text, now_ym) ==
    WorkResult(WorkLinesOf(text), PrimaryItems(WorkLinesOf(text), 1, now_ym), now_ym)

\* the step-wise run returns what the function returns
WorkRunAgreesWithFunction ==
    LET r == parse_work_experience_section(work.text, work.now_ym)
    IN  /\ work.pc = "done" => r.exc = "none" /\ r.items = work.items
        /\ work.pc = "raised" => r.exc = work.exc

\* ------------------------------------------------------------------------
\* parse_education_section
\* ------------------------------------------------------------------------
\* EduItem.months before a date range is seen (None)
NoMonths == -1

EduItem(place) ==
    [place |-> place, degree |-> <<>>, specialty |-> <<>>, start |-> Nil, end |-> Nil,
     months |-> NoMonths, extra |-> <<>>]

\* yr_re matched at position i: [y1, y2, stop], stop the index after the match;
\* <<>> when it does not match at i
YearRangeAt(ln, i) ==
    LET j == SkipSpaces(ln, i + 1)
        k == SkipSpaces(ln, j + 4)
        l == SkipSpaces(ln, k + 1)
    IN  IF /\ i <= Len(ln) /\ ln[i] \in FromWords
           /\ j > i + 1 /\ DigitsAt(ln, j, 4)
           /\ k > j + 4 /\ k <= Len(ln) /\ ln[k] \in ToWords
           /\ l > k + 1 /\ DigitsAt(ln, l, 4)
        THEN <<[y1 |-> ParseInt(SubSeq(ln, j, j + 3)),
                y2 |-> ParseInt(SubSeq(ln, l, l + 3)), stop |-> l + 4]>>
        ELSE <<>>

RECURSIVE YearRange(_, _)
YearRange(ln, i) ==
    IF i > Len(ln) THEN <<>>
    ELSE IF YearRangeAt(ln, i) # <<>> THEN YearRangeAt(ln, i) ELSE YearRange(ln, i + 1)

\* datetime.MINYEAR: dt.date(y, m, d) raises ValueError for a smaller year
MinYear == 1

DegreeWords == {"hi"}

\* detect_degree: the first degree whose keyword the text holds, "" if none
detect_degree(text) ==
    IF \E i \in 1..Len(text) : Lower(text[i]) \in DegreeWords
    THEN <<CHOOSE w \in DegreeWords : \E i \in 1..Len(text) : Lower(text[i]) = w>>
    ELSE <<>>

\* re.sub(r"\(\s*\d+.*?\)", "", s): every "(" that a number follows is
\* removed together with the text up to the next ")"
RECURSIVE DropNumberParens(_, _)
DropNumberParens(s, i) ==
    IF i > Len(s) THEN <<>>
    ELSE LET d == SkipSpaces(s, i + 1)
             q == NextClose(s, d + 1)
         IN  IF s[i] = "(" /\ DigitsAt(s, d, 1) /\ q # 0
             THEN DropNumberParens(s, q + 1)
             ELSE <<s[i]>> \o DropNumberParens(s, i + 1)

\* head.split()[0]
FirstWord(head) ==
    LET h == LStrip(head)
        n == IF \E i \in 1..Len(h) : IsSpace(h[i])
             THEN (CHOOSE i \in 1..Len(h) : IsSpace(h[i]) /\ \A j \in 1..(i - 1) : ~IsSpace(h[j])) - 1
             ELSE Len(h)
    IN  SubSeq(h, 1, n)

\* parse_edu_place_specialty(line): [place, specialty]
parse_edu_place_specialty(line) ==
    LET s == Strip(DropNumberParens(Strip(line), 1))
        head == Strip(SplitOn(s, ",", <<>>)[1])
        dot == IndexOf(head, ".")
    IN  IF Strip(line) = <<>> THEN [place |-> <<>>, specialty |-> <<>>]
        ELSE [place |-> IF head # <<>> THEN FirstWord(head) ELSE <<>>,
              specialty |-> IF dot # 0 THEN Strip(SubSeq(head, dot + 1, Len(head))) ELSE <<>>]

InstitutionWords == {"uni"}

InstitutionMinLen == 6

\* (cur.extra + " " + tail).strip()
AddExtra(extra, tail) == Strip(extra \o <<" ">> \o tail)

\* the body of the for loop for one line; st is [exc, items, cur], cur the
\* open entry as a list of at most one EduItem
EduLine(st, ln) ==
    LET m == YearRange(ln, 1)
        cur == IF st.cur # <<>> THEN st.cur[1] ELSE EduItem(<<>>)
        ps == parse_edu_place_specialty(ln)
        tail == StripChars(SubSeq(ln, m[1].stop, Len(ln)), {" ", ",", "-"})
        dated == [cur EXCEPT
                    !.start = Fmt4(m[1].y1) \o <<"-", "0", "1">>,
                    !.end = Fmt4(m[1].y2) \o <<"-", "1", "2">>,
                    !.months = months_between(Date(m[1].y1, 1, 1), Date(m[1].y2, 12, 1)),
                    !.degree = detect_degree(ln),
                    !.place = ps.place,
                    !.specialty = ps.specialty,
                    !.extra = IF tail # <<>> THEN AddExtra(@, tail) ELSE @]
    IN  IF st.exc # "none" THEN st
        ELSE IF m # <<>>
             THEN (IF m[1].y1 < MinYear \/ m[1].y2 < MinYear
                   THEN [st EXCEPT !.exc = "ValueError"]
                   ELSE [st EXCEPT !.cur = <<dated>>])
        ELSE IF TextLen(ln) > InstitutionMinLen
                /\ \E i \in 1..Len(ln) : Lower(ln[i]) \in InstitutionWords
             THEN [st EXCEPT !.items = @ \o st.cur, !.cur = <<EduItem(ln)>>]
        ELSE IF st.cur # <<>>
             THEN (IF cur.specialty = <<>>
                   THEN [st EXCEPT !.cur = <<[cur EXCEPT !.specialty = ln]>>]
                   ELSE [st EXCEPT !.cur = <<[cur EXCEPT !.extra = AddExtra(@, ln)]>>])
        ELSE st

RECURSIVE EduFold(_, _)
EduFold(st, lines) ==
    IF lines = <<>> THEN st ELSE EduFold(EduLine(st, Head(lines)), Tail(lines))

\* parse_education_section(text): [exc, items]
parse_education_section(text) ==
    LET st == EduFold([exc |-> "none", items |-> <<>>, cur |-> <<>>],
                      StrippedNonEmpty(SplitLines(text)))
    IN  IF st.exc # "none" THEN [exc |-> st.exc, items |-> <<>>]
        ELSE [exc |-> "none", items |-> st.items \o st.cur]

\* ------------------------------------------------------------------------
\* Skills and driving categories
\* ------------------------------------------------------------------------
CsvSeps == {",", ";"}

\* _split_csv_like(v) for a text or None
split_csv_like(v) ==
    IF v = Nil THEN <<>> ELSE StrippedNonEmpty(SplitOnAny(v, CsvSeps, <<>>))

\* str.upper() on the letters the model uses
Upper(c) ==
    CASE c = "a" -> "A"
      [] c = "b" -> "B"
      [] c = "c" -> "C"
      [] c = "d" -> "D"
      [] c = "e" -> "E"
      [] c = "w" -> "W"
      [] OTHER -> c

UpperStr(s) == [i \in 1..Len(s) |-> Upper(s[i])]

\* order = ["A", "B", "BE", "C", "CE", "D", "DE"]
CategoryOrder == << <<"A">>, <<"B">>, <<"B", "E">>, <<"C">>, <<"C", "E">>, <<"D">>, <<"D", "E">> >>

\* the index after the run of word characters that starts at i
RECURSIVE WordEnd(_, _)
WordEnd(t, i) == IF IsWordAt(t, i) THEN WordEnd(t, i + 1) ELSE i

MarkerWords == {"kat"}

CategoryMaxLen == 2

\* _DRIVING_RE matched with its marker at position i: the category in upper
\* case, <<>> when it does not match
MarkedCategoryAt(t, i) ==
    LET d == IF i + 1 <= Len(t) /\ t[i + 1] = "." THEN i + 2 ELSE i + 1
        dotted == SkipSpaces(t, d)
        plain == SkipSpaces(t, i + 1)
        run(j) == SubSeq(t, j, WordEnd(t, j) - 1)
        fits(j) == /\ run(j) # <<>> /\ TextLen(run(j)) <= CategoryMaxLen
                   /\ \A k \in 1..Len(run(j)) : ~IsDigit(run(j)[k])
    IN  IF ~(t[i] \in MarkerWords /\ ~IsWordAt(t, i - 1)) THEN <<>>
        ELSE IF fits(dotted) THEN UpperStr(run(dotted))
        ELSE IF fits(plain) THEN UpperStr(run(plain))
        ELSE <<>>

\* a bare category at position i: a whole word that is one of the seven names
BareCategoryAt(t, i) ==
    LET w == SubSeq(t, i, WordEnd(t, i) - 1)
    IN  IF ~IsWordAt(t, i - 1) /\ w \in Range(CategoryOrder) THEN w ELSE <<>>

\* extract_driving_categories(text)
extract_driving_categories(text) ==
    LET cats == {MarkedCategoryAt(text, i) : i \in 1..Len(text)}
                \cup {BareCategoryAt(text, i) : i \in 1..Len(text)}
    IN  SelectSeq(CategoryOrder, LAMBDA c : c \in cats)

\* for c in xs: if c not in acc: acc.append(c)
RECURSIVE AppendNew(_, _)
AppendNew(acc, xs) ==
    IF xs = <<>> THEN acc
    ELSE AppendNew(IF Head(xs) \in Range(acc) THEN acc ELSE Append(acc, Head(xs)), Tail(xs))

\* driving_cats_from_skill_months: skill_months as the list of its
\* [skill, months] items in insertion order
RECURSIVE driving_cats_from_skill_months(_)
driving_cats_from_skill_months(skill_months) ==
    IF skill_months = <<>> THEN <<>>
    ELSE AppendNew(driving_cats_from_skill_months(SubSeq(skill_months, 1, Len(skill_months) - 1)),
                   extract_driving_categories(skill_months[Len(skill_months)].skill))

\* ------------------------------------------------------------------------
\* build_skill_months_from_work_items (processor.py)
\* ------------------------------------------------------------------------
SkillThr == 78

\* a call of matcher.similarity that raised
OracleRaised == -1

\* known: the (ns, s) pairs of the skills whose normal form is not empty
KnownSkills(known_raw_skills) ==
    SelectSeq([k \in 1..Len(known_raw_skills) |->
                  [ns |-> norm_skill(known_raw_skills[k]), orig |-> known_raw_skills[k]]],
              LAMBDA q : q.ns # <<>>)

\* skill_months[ns] += months on the dict kept as a list of items
AddMonths(sm, ns, months) ==
    IF \E k \in 1..Len(sm) : sm[k].skill = ns
    THEN [k \in 1..Len(sm) |->
             IF sm[k].skill = ns THEN [sm[k] EXCEPT !.months = @ + months] ELSE sm[k]]
    ELSE Append(sm, [skill |-> ns, months |-> months])

\* the exact pass: the index of the first known skill equal to nd, 0 if none
ExactSkillIdx(known, nd) ==
    IF nd # <<>> /\ \E k \in 1..Len(known) : known[k].ns = nd
    THEN CHOOSE k \in 1..Len(known) :
            known[k].ns = nd /\ \A j \in 1..(k - 1) : known[j].ns # nd
    ELSE 0

\* the oracle pass: best index and score over scores[1..n]; a call that
\* raised is passed over
RECURSIVE BestSkill(_, _)
BestSkill(scores, n) ==
    IF n = 0 THEN [idx |-> 0, sim |-> 0]
    ELSE LET prev == BestSkill(scores, n - 1)
         IN  IF scores[n] # OracleRaised /\ scores[n] > prev.sim
             THEN [idx |-> n, sim |-> scores[n]] ELSE prev

\* what the processor's oracle answers for duty d against the known skills
OracleScores(matcher, d, known) ==
    [k \in 1..Len(known) |->
        IF matcher = "stub" THEN StubSimilarity(d, known[k].orig) ELSE OracleRaised]

\* line 216 without `best_sim >= thr`: the best-scoring skill gets the months
\* whatever its score
DutyStepWith_nothr(sm, months, raw_duty, known, matcher, scores) ==
    LET d == Strip(raw_duty)
        e == ExactSkillIdx(known, norm_skill(d))
        best == BestSkill(scores, Len(known))
    IN  IF d = <<>> THEN sm
        ELSE IF e # 0 THEN AddMonths(sm, known[e].ns, months)
        ELSE IF matcher = "none" THEN sm
        ELSE IF best.idx # 0 THEN AddMonths(sm, known[best.idx].ns, months)
        ELSE sm

\* the body of the loop over duties for one duty, scores being what the
\* oracle answers for the duty against each known skill
DutyStepWith(sm, months, raw_duty, known, matcher, scores) ==
    LET d == Strip(raw_duty)
        e == ExactSkillIdx(known, norm_skill(d))
        best == BestSkill(scores, Len(known))
    IN  IF d = <<>> THEN sm
        ELSE IF e # 0 THEN AddMonths(sm, known[e].ns, months)
        ELSE IF matcher = "none" THEN sm
        ELSE IF best.idx # 0 /\ best.sim >= SkillThr
             THEN AddMonths(sm, known[best.idx].ns, months)
        ELSE sm

\* the body of the loop over duties for one duty
DutyStep(sm, months, raw_duty, known, matcher) ==
    DutyStepWith(sm, months, raw_duty, known, matcher,
                 OracleScores(matcher, Strip(raw_duty), known))

RECURSIVE DutiesFold(_, _, _, _, _)
DutiesFold(sm, months, duties, known, matcher) ==
    IF duties = <<>> THEN sm
    ELSE DutiesFold(DutyStep(sm, months, Head(duties), known, matcher),
                    months, Tail(duties), known, matcher)

RECURSIVE SkillFold(_, _, _, _)
SkillFold(sm, work_items, known, matcher) ==
    IF work_items = <<>> THEN sm
    ELSE LET wi == Head(work_items)
         IN  SkillFold(IF wi.months <= 0 THEN sm
                       ELSE DutiesFold(sm, wi.months, wi.duties, known, matcher),
                       Tail(work_items), known, matcher)

build_skill_months_from_work_items(work_items, known_raw_skills, matcher) ==
    LET known == KnownSkills(known_raw_skills)
    IN  IF known = <<>> THEN <<>> ELSE SkillFold(<<>>, work_items, known, matcher)

\* ------------------------------------------------------------------------
\* fill_missing_work_titles (processor.py)
\* ------------------------------------------------------------------------
PositionLabels == {"pos"}

\* the index after the line that holds position i
RECURSIVE LineEnd(_, _)
LineEnd(t, i) == IF i <= Len(t) /\ t[i] # "\n" THEN LineEnd(t, i + 1) ELSE i

\* (Должность|Посада|Position)\s*[:\-]\s*([^\n]+) matched at position i:
\* group 2 stripped, <<>> when there is no match at i
LabelledPositionAt(t, i) ==
    LET j == SkipSpaces(t, i + 1)
        k == SkipSpaces(t, j + 1)
    IN  IF t[i] \in PositionLabels /\ j <= Len(t) /\ t[j] \in {":", "-"} /\ k <= Len(t)
        THEN Strip(SubSeq(t, k, LineEnd(t, k) - 1))
        ELSE <<>>

RECURSIVE LabelledPosition(_, _)
LabelledPosition(t, i) ==
    IF i > Len(t) THEN <<>>
    ELSE IF LabelledPositionAt(t, i) # <<>> THEN LabelledPositionAt(t, i)
         ELSE LabelledPosition(t, i + 1)

\* lines 32-38 for one entry; pos is the position of lines 27-31
FillStep_always(it, pos) == IF pos # <<>> THEN [it EXCEPT !.title = pos] ELSE it

\* lines 32-38 for one entry; pos is the position of lines 27-31
FillStep(it, pos) ==
    IF Strip(it.title) = <<>> /\ pos # <<>> THEN [it EXCEPT !.title = pos] ELSE it

\* lines 27-31: the stripped position, else group 2 of the label
FillPosition(work_text, position) ==
    IF position # Nil /\ Strip(position) # <<>> THEN Strip(position)
    ELSE LabelledPosition(work_text, 1)

fill_missing_work_titles(work_items, work_text, position) ==
    [k \in 1..Len(work_items) |->
        FillStep(work_items[k], FillPosition(work_text, position))]

\* ------------------------------------------------------------------------
\* Languages (regex_extractor.py) and regex_extract_from_payload
\* ------------------------------------------------------------------------
\* _LEVEL_ALIASES in the order of the dict, with the synonyms the model's
\* letters can spell
LevelAliases ==
    << [level |-> "beginner", aliases |-> << <<"a", "1">>, <<"a", "2">> >>],
       [level |-> "intermediate", aliases |-> << <<"mid">>, <<"b", "1">> >>],
       [level |-> "upper-intermediate",
        aliases |-> << <<"up", " ", "mid">>, <<"up", "-", "mid">>, <<"b", "2">> >>],
       [level |-> "advanced", aliases |-> << <<"c", "1">> >>],
       [level |-> "fluent", aliases |-> << <<"c", "2">> >>] >>

\* [a-z0-9]: the tokens written in Latin letters or digits
LatinToks == {"w", "a", "b", "c", "d", "e", "cr", "dr", "T", "en", "mid", "up"} \cup Range(Digits)

\* re.search(rf"(^|[^a-z0-9]){alias}([^a-z0-9]|$)", t)
HasAlias(t, alias) ==
    \E i \in 1..Len(t) :
        /\ i + Len(alias) - 1 <= Len(t)
        /\ SubSeq(t, i, i + Len(alias) - 1) = alias
        /\ (i = 1 \/ t[i - 1] \notin LatinToks)
        /\ (i + Len(alias) > Len(t) \/ t[i + Len(alias)] \notin LatinToks)

\* _detect_level: the first level, in the order of the dict, one of whose
\* synonyms the text holds
detect_level(rest) ==
    LET t == CollapseWs(LowerStr(Strip(rest)))
        hit(l) == \E a \in 1..Len(LevelAliases[l].aliases) : HasAlias(t, LevelAliases[l].aliases[a])
    IN  IF \E l \in 1..Len(LevelAliases) : hit(l)
        THEN LevelAliases[CHOOSE l \in 1..Len(LevelAliases) :
                             hit(l) /\ \A j \in 1..(l - 1) : ~hit(j)].level
        ELSE None

LanguageSeps == {"-", ":"}

\* parse_language_item(item): a one-record list, the empty list for None
parse_language_item(item) ==
    LET t == Strip(item)
        p == IF \E i \in 1..Len(t) : t[i] \in LanguageSeps
             THEN CHOOSE i \in 1..Len(t) :
                     t[i] \in LanguageSeps /\ \A j \in 1..(i - 1) : t[j] \notin LanguageSeps
             ELSE 0
        lang == IF p # 0 THEN Strip(SubSeq(t, 1, p - 1)) ELSE FirstWord(t)
        rest == IF p # 0 THEN Strip(SubSeq(t, p + 1, Len(t)))
                ELSE Strip(SubSeq(t, Len(lang) + 1, Len(t)))
    IN  IF t = <<>> \/ lang = <<>> THEN <<>>
        ELSE <<[language |-> lang, level |-> detect_level(rest)]>>

\* list(dict.fromkeys(xs))
RECURSIVE Dedup(_, _)
Dedup(xs, seen) ==
    IF xs = <<>> THEN <<>>
    ELSE IF Head(xs) \in seen THEN Dedup(Tail(xs), seen)
         ELSE <<Head(xs)>> \o Dedup(Tail(xs), seen \cup {Head(xs)})

\* the loop over the languages: the parsed items without repeated
\* (language, level) keys
RECURSIVE LanguagesStructured(_, _)
LanguagesStructured(languages, seen) ==
    IF languages = <<>> THEN <<>>
    ELSE LET it == parse_language_item(Head(languages))
         IN  IF it = <<>> \/ it[1] \in seen
             THEN LanguagesStructured(Tail(languages), seen)
             ELSE it \o LanguagesStructured(Tail(languages), seen \cup {it[1]})

\* regex_extract_from_payload(payload): the loop variable of the language
\* loop is named parsed, so after a loop that ran, parsed no longer is
\* payload["parsed"]: it is the last language item or None, and the reads of
\* work_experience, education, skills and position find nothing
RegexExtractResult(position, skills, languages, w, e) ==
    [exc |-> IF w.exc # "none" THEN w.exc ELSE e.exc,
     position |-> position,
     skills |-> skills,
     languages |-> languages,
     work_items |-> w.items,
     edu_items |-> IF w.exc # "none" THEN <<>> ELSE e.items]

\* the part of regex_extract_from_payload after the language loop: parsed is
\* payload["parsed"] when the loop did not run, and holds nothing otherwise
ExtractSections(parsed, shadowed, languages, now_ym) ==
    RegexExtractResult(
        IF shadowed THEN Nil ELSE parsed.position,
        IF shadowed THEN <<>> ELSE split_csv_like(parsed.skills),
        LanguagesStructured(languages, {}),
        parse_work_experience_section(
            IF shadowed \/ parsed.work_experience = Nil THEN <<>> ELSE parsed.work_experience,
            now_ym),
        parse_education_section(
            IF shadowed \/ parsed.education = Nil THEN <<>> ELSE parsed.education))

LanguagesOf(languages) == Dedup(split_csv_like(languages), {})

regex_extract_from_payload(payload, now_ym) ==
    ExtractSections(payload.parsed, LanguagesOf(payload.parsed.languages) # <<>>,
                    LanguagesOf(payload.parsed.languages), now_ym)

\* ------------------------------------------------------------------------
\* UniversalResumeProcessor.process_payload (processor.py)
\* ------------------------------------------------------------------------
\* sum(int(it.months or 0) for it in items)
RECURSIVE TotalMonths(_)
TotalMonths(items) ==
    IF items = <<>> THEN 0
    ELSE (IF Head(items).months = NoMonths THEN 0 ELSE Head(items).months)
         + TotalMonths(Tail(items))

\* fmt_years_1dp(total) if total > 0 else None: an optional value is a list
\* of at most one element, the empty list is None
TotalYears(months) == IF months > 0 THEN <<fmt_years_1dp(months)>> ELSE <<>>

\* normalized_skills: the normal forms, without the empty and the repeated ones
NormalizedSkills(skills) ==
    Dedup(SelectSeq([k \in 1..Len(skills) |-> norm_skill(skills[k])], LAMBDA q : q # <<>>), {})

\* the categories before the final list(set(...))
DrivingCategories(skills, skill_months) ==
    AppendNew(AppendNew(<<>>, extract_driving_categories(JoinComma(skills))),
              driving_cats_from_skill_months(skill_months))

\* list(set(xs)) for xs without repetitions: the same elements in an order
\* the hash seed of the run decides, so any order
SetOrders(xs) ==
    {ys \in [1..Len(xs) -> Range(xs)] : Range(ys) = Range(xs)}

\* the raising oracle is called, and raises, as soon as an entry that is not
\* skipped meets a cluster: at the second such entry
OracleIsCalled(work_items) == Len(SelectSeq(work_items, LAMBDA it : ~AggSkips(it))) >= 2

\* the ProcessedResume of lines 310-320; None is the empty list in the
\* optional fields, which are never an empty list otherwise
ProcessedResume(rx, work_items, months_by_position, driving_categories, matcher) ==
    [driving_categories |-> driving_categories,
     normalized_skills |-> NormalizedSkills(rx.skills),
     skill_months |-> build_skill_months_from_work_items(work_items, rx.skills, matcher),
     work_experience_items |-> work_items,
     education_items |-> rx.edu_items,
     total_work_years |-> TotalYears(TotalMonths(work_items)),
     total_edu_years |-> TotalYears(TotalMonths(rx.edu_items)),
     months_by_position |-> months_by_position,
     extractor_warnings |-> <<>>]

\* --- the processor specification: one call of process_payload.  matcher
\* --- "none" is matcher=None, "stub" the stub oracle, "raising" an oracle
\* --- whose every call raises.
Block(title, meta, duties) == <<title, meta>> \o duties

WorkMeta == MetaLine(DateTok(1, FirstYear), DateTok(3, FirstYear),
                     <<" ", "(", "w", ")", " ", "w", ",", " ", "w", " ", "(", "w", ")">>)

WorkTexts ==
    { <<>>,
      JoinNewline(Block(<<"cr">>, WorkMeta, << <<"w", ",", " ", "kat", " ", "B">> >>)),
      JoinNewline(Block(<<"cr">>, WorkMeta, <<>>) \o Block(<<"dr">>, WorkMeta, << <<"w">> >>)),
      JoinNewline(Block(<<"cr", " ", "/", " ", "dr">>, WorkMeta,
                        << <<"cr", ":", " ", "w", ".", " ", "dr", " ", "-", " ", "w">> >>)),
      <<"cr", " ", "(">> \o Fmt4(FirstYear) \o <<" ", "-", " ">> \o Fmt4(FirstYear + 1) \o <<")", " ", "w">>,
      MetaLine(DateTok(1, FirstYear), DateTok(3, FirstYear), <<" ", "-", " ", "tov", " ", "w">>) }

EduTexts ==
    { <<>>,
      JoinNewline(<< <<"w", " ", "uni">>, <<"z", " ">> \o Fmt4(FirstYear) \o <<" ", "po", " ">> \o Fmt4(FirstYear + 1) >>),
      <<"z", " ", "0", "0", "0", "0", " ", "po", " ">> \o Fmt4(FirstYear) }

SkillTexts ==
    { Nil,
      <<"w">>,
      <<"B", ",", " ", "A">>,
      <<"D", "E", ",", " ", "B", ";", " ", "B">>,
      <<"kat", " ", "B", ",", " ", "A", ",", " ", "kat", ".", " ", "C">> }

LanguageTexts == {Nil, <<"en", " ", "-", " ", "b", "2">>}

Urls == {Nil, <<>>, <<"w">>}

Positions == {Nil, <<"dr">>}

Matchers == {"none", "stub", "raising"}

ProcNow == FmtYM(FirstYear + 1, 6)

InitProc ==
    /\ \E url \in Urls, pos \in Positions, wt \in WorkTexts, et \in EduTexts,
          st \in SkillTexts, lt \in LanguageTexts, m \in Matchers :
         proc = [pc |-> "try", matcher |-> m, now_ym |-> ProcNow,
                 payload |-> [source_url |-> url,
                              parsed |-> [position |-> pos, work_experience |-> wt,
                                          education |-> et, skills |-> st, languages |-> lt]],
                 rx |-> <<>>, work_items |-> <<>>, months_by_position |-> <<>>,
                 exc |-> "none", ret |-> <<>>]
    /\ dur = Off /\ agg = Off /\ duty = Off /\ work = Off /\ edu = Off /\ skill = Off /\ scrape = Off

\* control after line 242: the statement that follows when rx was returned,
\* the handler when a section parser raised
Extracted(rx) ==
    proc' = [proc EXCEPT !.pc = IF rx.exc = "none" THEN "extracted" ELSE "except",
                         !.rx = IF rx.exc = "none" THEN <<rx>> ELSE <<>>,
                         !.exc = rx.exc]

\* line 242: rx = regex_extract_from_payload(payload)
ProcExtract ==
    /\ proc.pc = "try"
    /\ Extracted(regex_extract_from_payload(proc.payload, proc.now_ym))
    /\ UNCHANGED <<dur, agg, duty, work, edu, skill, scrape>>

\* the titles filled in, as process_payload reads them from payload["parsed"]
FilledItems ==
    fill_missing_work_titles(
        proc.rx[1].work_items,
        IF proc.payload.parsed.work_experience = Nil THEN <<>>
        ELSE proc.payload.parsed.work_experience,
        proc.payload.parsed.position)

\* lines 257-267: the titles, the total and the aggregation, which returns
ProcAggregate ==
    /\ proc.pc = "extracted"
    /\ ~(proc.matcher = "raising" /\ OracleIsCalled(FilledItems))
    /\ proc' = [proc EXCEPT
                  !.pc = "aggregated", !.work_items = FilledItems,
                  !.months_by_position =
                      aggregate_months_by_title(FilledItems,
                          IF proc.matcher = "raising" THEN "stub" ELSE proc.matcher)]
    /\ UNCHANGED <<dur, agg, duty, work, edu, skill, scrape>>

\* line 267: the oracle raises inside aggregate_months_by_title
ProcOracleRaises ==
    /\ proc.pc = "extracted"
    /\ proc.matcher = "raising" /\ OracleIsCalled(FilledItems)
    /\ proc' = [proc EXCEPT !.pc = "except", !.exc = "OracleError", !.work_items = FilledItems]
    /\ UNCHANGED <<dur, agg, duty, work, edu, skill, scrape>>

\* lines 269-320: the skills, the driving categories in the order that
\* list(set(...)) leaves them in, and the record, which is returned
ProcReturn ==
    /\ proc.pc = "aggregated"
    /\ LET rx == proc.rx[1]
           sm == build_skill_months_from_work_items(proc.work_items, rx.skills, proc.matcher)
       IN  \E dc \in SetOrders(DrivingCategories(rx.skills, sm)) :
              proc' = [proc EXCEPT
                         !.pc = "returned",
                         !.ret = <<ProcessedResume(rx, proc.work_items, proc.months_by_position,
                                                   dc, proc.matcher)>>]
    /\ UNCHANGED <<dur, agg, duty, work, edu, skill, scrape>>

\* lines 321-324: the handler logs, then appends the warning to processed, a
\* name that nothing binds: NameError leaves process_payload
ProcExcept ==
    /\ proc.pc = "except"
    /\ proc' = [proc EXCEPT !.pc = "raised", !.exc = "NameError"]
    /\ UNCHANGED <<dur, agg, duty, work, edu, skill, scrape>>

Next ==
    \/ ProcExtract
    \/ ProcAggregate
    \/ ProcOracleRaises
    \/ ProcReturn
    \/ ProcExcept

Spec == InitProc /\ [][Next]_vars

\* --- the statements about process_payload
HasIdentifier == proc.pc # "off" /\ proc.payload.source_url \notin {Nil, <<>>}

Faulted == proc.pc \in {"except", "raised"}

\* the categories in the fixed order, each at most once: a subsequence of
\* CategoryOrder
InCategoryOrder(cats) ==
    /\ Range(cats) \subseteq Range(CategoryOrder)
    /\ \A a, b \in 1..Len(cats) :
         a < b => IndexOf(CategoryOrder, cats[a]) < IndexOf(CategoryOrder, cats[b])

\* C1: process_payload called with a payload whose source_url is missing or
\* empty reports a hard failure and returns no record: such a call never
\* reaches the return of line 320.
C1_MissingIdentifierReturnsNothing ==
    ~HasIdentifier => proc.pc # "returned"

\* C2: for a payload with an identifier, a fault of any stage (a section
\* parser that raises, the oracle that raises during title clustering) never
\* leaves process_payload as an exception: the call returns a record whose
\* extractor_warnings holds processing_failed.
C2_FaultBecomesWarning ==
    HasIdentifier =>
        /\ proc.pc # "raised"
        /\ (proc.pc = "returned" /\ proc.exc # "none") =>
               "processing_failed" \in Range(proc.ret[1].extractor_warnings)

\* C3: the driving_categories of the returned record hold only members of
\* {A,B,BE,C,CE,D,DE}, each at most once, in the order A,B,BE,C,CE,D,DE,
\* whatever the order and the duplication in the skills of the payload.
C3_DrivingCategoriesCanonical ==
    proc.pc = "returned" => InCategoryOrder(proc.ret[1].driving_categories)

\* C6: a payload whose work-experience text is empty is processed without
\* raising, and the record returned has no work_experience_items, no
\* extractor_warnings and no total_work_years.
C6_EmptyWorkText ==
    (proc.pc # "off" /\ HasIdentifier /\ proc.payload.parsed.work_experience = <<>>) =>
        /\ proc.pc # "raised"
        /\ proc.pc = "returned" =>
               /\ proc.ret[1].work_experience_items = <<>>
               /\ proc.ret[1].extractor_warnings = <<>>
               /\ proc.ret[1].total_work_years = <<>>

\* ------------------------------------------------------------------------
\* statements about the order of the three strategies
\* ------------------------------------------------------------------------
\* some line of the text has the inline shape of Fallback A
SomeInlineLine(lines, now_ym) == \E k \in 1..Len(lines) : ~InlinePasses(lines, k, now_ym)

\* the outcome that first-non-empty-wins calls for, given what the primary
\* strategy and Fallback B produce on the lines
StrategyOrderKept(w, primary, oneline) ==
    /\ (w.pc = "done" /\ primary # <<>>) => (w.items = primary /\ w.strategy = "primary")
    /\ w.pc \in {"inline", "raised"} => (primary = <<>> /\ w.items = <<>>)
    /\ w.strategy = "inline" => primary = <<>>
    /\ (w.pc = "done" /\ primary = <<>>) =>
           /\ ~SomeInlineLine(w.lines, w.now_ym)
           /\ w.items = oneline
           /\ w.strategy = (IF oneline = <<>> THEN "none" ELSE "oneline")

\* C11: the three strategies are tried in order and the first non-empty result
\* wins: the entries of the primary strategy are returned whenever there is
\* one, Fallback A runs only when the primary strategy produced nothing,
\* Fallback B runs only when Fallback A produced nothing as well, and the
\* entries returned are those of one strategy alone.
C11_FirstNonEmptyWins ==
    work.pc # "off" =>
        StrategyOrderKept(work, PrimaryItems(work.lines, 1, work.now_ym),
                          parse_one_line_date_entries(work.lines))

\* Fallback B returned entries after the primary strategy and Fallback A had
\* produced nothing
C11_Witness ==
    /\ work.pc = "done" /\ work.strategy = "oneline" /\ work.items # <<>>
    /\ PrimaryItems(work.lines, 1, work.now_ym) = <<>>
    /\ Len(work.lines) >= 2

\* C12: when the primary strategy yields nothing and a line has the inline
\* shape 'Title (YYYY - YYYY|present) Company (Industry)',
\* parse_work_experience_section does not fail: it returns, and what it
\* returns holds an entry for that line.
C12_InlineLineGivesEntry ==
    (work.pc # "off" /\ PrimaryItems(work.lines, 1, work.now_ym) = <<>>
        /\ SomeInlineLine(work.lines, work.now_ym)) =>
        /\ work.pc # "raised"
        /\ work.pc = "done" => (work.items # <<>> /\ work.strategy = "inline")

\* ------------------------------------------------------------------------
\* --- the year-range specification: one year-only range, given to the
\* --- inline parser of work experience or to the education parser
\* ------------------------------------------------------------------------
LastRangeYear == 2025

RangeYearSpan == 10

RangeYears == (LastRangeYear - RangeYearSpan)..LastRangeYear

\* 'courier/driver (Y1 - Y2) x (xx)'
InlineRangeLine(y1, y2) ==
    <<"cr", "/", "dr", " ", "(">> \o Fmt4(y1) \o <<" ", "-", " ">> \o Fmt4(y2)
        \o <<")", " ", "w", " ", "(", "w", "w", ")">>

\* an institution line, then 'з Y1 по Y2'
EduRangeText(y1, y2) ==
    <<"w", " ", "uni", "\n", "z", " ">> \o Fmt4(y1) \o <<" ", "po", " ">> \o Fmt4(y2)

InitYears ==
    /\ \E y1 \in RangeYears, y2 \in RangeYears, kind \in {"inline", "education"} :
         dur = [pc |-> "years", kind |-> kind, y1 |-> y1, y2 |-> y2,
                start |-> <<>>, end |-> <<>>, months |-> NoMonths]
    /\ agg = Off /\ duty = Off /\ work = Off /\ proc = Off /\ edu = Off /\ skill = Off /\ scrape = Off

\* the fields of the one entry the parser makes of the range
Ranged(found) ==
    dur' = [dur EXCEPT !.pc = "ranged", !.start = found[1].start,
                       !.end = found[1].end, !.months = found[1].months]

\* parse_inline_title_dates_meta(line): the clock plays no part for a range
\* that ends in a year
YearsInline ==
    /\ dur.pc = "years" /\ dur.kind = "inline"
    /\ Ranged(parse_inline_title_dates_meta(InlineRangeLine(dur.y1, dur.y2),
                                            FmtYM(LastRangeYear, 1)))
    /\ UNCHANGED <<agg, duty, work, proc, edu, skill, scrape>>

\* parse_education_section(text)
YearsEducation ==
    /\ dur.pc = "years" /\ dur.kind = "education"
    /\ Ranged(parse_education_section(EduRangeText(dur.y1, dur.y2)).items)
    /\ UNCHANGED <<agg, duty, work, proc, edu, skill, scrape>>

NextYears == YearsInline \/ YearsEducation

SpecYears == InitYears /\ [][NextYears]_vars

\* the months from January of y1 to December of y2, both included
WholeYears(y1, y2) == IF y2 < y1 THEN 0 ELSE 12 * (y2 - y1 + 1)

IsScenario(kind, y1, y2) ==
    dur.pc = "ranged" /\ dur.kind = kind /\ dur.y1 = y1 /\ dur.y2 = y2

\* C13: a year-only range gets the duration that the scenarios state: the
\* inline range '2020 - 2025' yields 61 months and the education range
\* 'з 2015 по 2019' yields 49 months.
C13_ScenarioDurations ==
    /\ IsScenario("inline", 2020, 2025) => dur.months = 61
    /\ IsScenario("education", 2015, 2019) => dur.months = 49

\* C13, amended: a year-only range runs from January of its first year to
\* December of its last, and its duration is the inclusive month count
\* 12 * (Y2 - Y1 + 1) for Y2 >= Y1 and 0 otherwise: 72 months for the inline
\* range '2020 - 2025', 60 months for the education range 'з 2015 по 2019'.
C13_YearRangeIsWholeYears ==
    /\ dur.pc = "ranged" =>
          /\ dur.start = FmtYM(dur.y1, 1) /\ dur.end = FmtYM(dur.y2, 12)
          /\ dur.months = WholeYears(dur.y1, dur.y2)
    /\ IsScenario("inline", 2020, 2025) => dur.months = 72
    /\ IsScenario("education", 2015, 2019) => dur.months = 60

\* the education scenario was parsed
C13_Witness == IsScenario("education", 2015, 2019) /\ dur.months = 60

\* ------------------------------------------------------------------------
\* --- the education specification: one call of parse_education_section on
\* --- a text of at most MaxEduLines lines, one line of the loop per step
\* ------------------------------------------------------------------------
MaxEduLines == 3

YearsLine(y1, y2, tail) == <<"z", " ">> \o y1 \o <<" ", "po", " ">> \o y2 \o tail

EduLines ==
    { <<"w", " ", "uni">>,
      <<"uni", ",", " ", "w">>,
      YearsLine(Fmt4(FirstYear), Fmt4(FirstYear + 1), <<>>),
      YearsLine(Fmt4(FirstYear), Fmt4(FirstYear + 1), <<",", " ", "hi">>),
      YearsLine(Fmt4(FirstYear + 1), Fmt4(FirstYear), <<" ", "(", "2", " ", "w", ")">>),
      YearsLine(<<"0", "0", "0", "0">>, Fmt4(FirstYear), <<>>),
      <<"w", " ", "uni", " ">> \o YearsLine(Fmt4(FirstYear), Fmt4(FirstYear + 1), <<>>),
      <<"hi", " ", "w">>,
      <<"w", ".", " ", "w", ",", " ", "w">> }

InitEdu ==
    /\ \E ls \in SeqsUpTo(EduLines, MaxEduLines) :
         edu = [pc |-> "loop", text |-> JoinNewline(ls),
                lines |-> StrippedNonEmpty(SplitLines(JoinNewline(ls))), i |-> 1,
                st |-> [exc |-> "none", items |-> <<>>, cur |-> <<>>],
                ret |-> <<>>]
    /\ dur = Off /\ agg = Off /\ duty = Off /\ work = Off /\ proc = Off /\ skill = Off /\ scrape = Off

\* yr_re.search(ln) finds a range
HasYearRange(ln) == YearRange(ln, 1) # <<>>

\* the heuristic of line 994: a line that looks like an institution
IsInstitutionLine(ln) ==
    /\ TextLen(ln) > InstitutionMinLen
    /\ \E i \in 1..Len(ln) : Lower(ln[i]) \in InstitutionWords

EduAt(k) == edu.pc = "loop" /\ edu.i = k /\ k <= Len(edu.lines)

\* the state of the loop after the body ran on line i
EduAdvance(st) ==
    edu' = [edu EXCEPT !.st = st, !.i = @ + 1,
                       !.pc = IF st.exc = "none" THEN "loop" ELSE "raised"]

\* a line with a year range: dates, months, degree, place and specialty of the
\* open entry are set from this line (lines 976-990); dt.date raises
\* ValueError for the year 0000
EduRangeLine ==
    /\ \E k \in 1..MaxEduLines : EduAt(k) /\ HasYearRange(edu.lines[k])
    /\ EduAdvance(EduLine(edu.st, edu.lines[edu.i]))
    /\ UNCHANGED <<dur, agg, duty, work, proc, skill, scrape>>

\* a line that looks like an institution: flush, and a new entry (994-997)
EduInstitutionLine ==
    /\ \E k \in 1..MaxEduLines :
         EduAt(k) /\ ~HasYearRange(edu.lines[k]) /\ IsInstitutionLine(edu.lines[k])
    /\ EduAdvance(EduLine(edu.st, edu.lines[edu.i]))
    /\ UNCHANGED <<dur, agg, duty, work, proc, skill, scrape>>

\* any other line: specialty or extra of the open entry (999-1005)
EduOtherLine ==
    /\ \E k \in 1..MaxEduLines :
         EduAt(k) /\ ~HasYearRange(edu.lines[k]) /\ ~IsInstitutionLine(edu.lines[k])
    /\ EduAdvance(EduLine(edu.st, edu.lines[edu.i]))
    /\ UNCHANGED <<dur, agg, duty, work, proc, skill, scrape>>

\* flush() and return items
EduReturn ==
    /\ edu.pc = "loop" /\ edu.i > Len(edu.lines)
    /\ edu' = [edu EXCEPT !.pc = "done", !.ret = edu.st.items \o edu.st.cur]
    /\ UNCHANGED <<dur, agg, duty, work, proc, skill, scrape>>

NextEdu ==
    \/ EduRangeLine
    \/ EduInstitutionLine
    \/ EduOtherLine
    \/ EduReturn

SpecEdu == InitEdu /\ [][NextEdu]_vars

\* the step-wise run returns what parse_education_section returns
EduRunAgreesWithFunction ==
    /\ edu.pc = "done" => parse_education_section(edu.text) = [exc |-> "none", items |-> edu.ret]
    /\ edu.pc = "raised" => parse_education_section(edu.text).exc = edu.st.exc

\* the section is an institution line without a date span, then a line that
\* holds a year range
InstitutionThenRange(lines) ==
    /\ Len(lines) = 2
    /\ IsInstitutionLine(lines[1]) /\ ~HasYearRange(lines[1])
    /\ HasYearRange(lines[2]) /\ ~IsInstitutionLine(lines[2])

\* C14: for an education section that is an institution line followed by a
\* 'from YEAR to YEAR' line, parse_education_section returns exactly one
\* entry, whose institution is the text of the institution line and whose
\* degree is empty when the section holds no degree keyword.
C14_InstitutionLineIsThePlace ==
    (edu.pc = "done" /\ InstitutionThenRange(edu.lines)) =>
        /\ Len(edu.ret) = 1
        /\ edu.ret[1].place = edu.lines[1]
        /\ detect_degree(edu.text) = <<>> => edu.ret[1].degree = <<>>

\* ------------------------------------------------------------------------
\* --- the skill-months specification: one run of
\* --- build_skill_months_from_work_items, one duty per step.  matcher
\* --- "none" is matcher=None, "stub" the stub oracle, "any" an arbitrary
\* --- oracle (every call may return any score or raise).  skill.last is a
\* --- history variable: the duty the last step handled, with the mapping
\* --- before it and the scores the oracle gave.
\* ------------------------------------------------------------------------
MaxSkillItems == 1

MaxSkillMonths == 2

SkillDuties ==
    { <<>>,
      << <<"w">> >>,
      << <<" ", "W", " ">>, <<"a">> >>,
      << <<"a">>, <<"a", " ", " ", "b">>, <<" ">> >> }

KnownSkillLists ==
    { <<>>,
      << <<"w">>, <<"W">> >>,
      << <<"W">>, <<"a", " ", "b">>, <<" ">> >>,
      << <<"b">>, <<"A">>, <<"w">> >> }

SkillEntries == [title : {<<>>, <<"cr">>}, months : 0..MaxSkillMonths, duties : SkillDuties]

SkillScores == {OracleRaised, 0, SkillThr - 1, SkillThr, 100}

InitSkill ==
    /\ \E items \in SeqsUpTo(SkillEntries, MaxSkillItems), ks \in KnownSkillLists,
          m \in {"none", "stub", "any"} :
         skill = [pc |-> "start", matcher |-> m, work_items |-> items,
                  known_raw_skills |-> ks, known |-> KnownSkills(ks),
                  i |-> 1, j |-> 1, skill_months |-> <<>>, last |-> <<>>]
    /\ dur = Off /\ agg = Off /\ duty = Off /\ work = Off /\ proc = Off /\ edu = Off /\ scrape = Off

\* lines 171-173: no known skill, return {}
SkillNoneKnown ==
    /\ skill.pc = "start" /\ skill.known = <<>>
    /\ skill' = [skill EXCEPT !.pc = "done"]
    /\ UNCHANGED <<dur, agg, duty, work, proc, edu, scrape>>

SkillStart ==
    /\ skill.pc = "start" /\ skill.known # <<>>
    /\ skill' = [skill EXCEPT !.pc = "loop"]
    /\ UNCHANGED <<dur, agg, duty, work, proc, edu, scrape>>

SkillInLoop == skill.pc = "loop" /\ skill.i <= Len(skill.work_items)

SkillCur == skill.work_items[skill.i]

\* lines 176-178: months <= 0, continue
SkillSkipItem ==
    /\ SkillInLoop /\ SkillCur.months <= 0
    /\ skill' = [skill EXCEPT !.i = @ + 1, !.j = 1, !.last = <<>>]
    /\ UNCHANGED <<dur, agg, duty, work, proc, edu, scrape>>

\* the loop over the duties of the entry is over
SkillNextItem ==
    /\ SkillInLoop /\ SkillCur.months > 0 /\ skill.j > Len(SkillCur.duties)
    /\ skill' = [skill EXCEPT !.i = @ + 1, !.j = 1, !.last = <<>>]
    /\ UNCHANGED <<dur, agg, duty, work, proc, edu, scrape>>

SkillAtDuty == SkillInLoop /\ SkillCur.months > 0 /\ skill.j <= Len(SkillCur.duties)

\* the oracle is asked about the duty: it is not blank, no known skill equals
\* it after normalization, and there is an oracle
OracleIsAsked(raw_duty, known, matcher) ==
    /\ Strip(raw_duty) # <<>>
    /\ ExactSkillIdx(known, norm_skill(Strip(raw_duty))) = 0
    /\ matcher # "none"

SkillAdvance(scores) ==
    skill' = [skill EXCEPT
                !.j = @ + 1,
                !.skill_months = DutyStepWith(@, SkillCur.months, SkillCur.duties[skill.j],
                                              skill.known, skill.matcher, scores),
                !.last = <<[months |-> SkillCur.months, duty |-> SkillCur.duties[skill.j],
                            before |-> skill.skill_months, scores |-> scores]>>]

\* lines 185-203: a blank duty, an exact match, or no oracle
SkillDutyExact ==
    /\ SkillAtDuty
    /\ ~OracleIsAsked(SkillCur.duties[skill.j], skill.known, skill.matcher)
    /\ SkillAdvance(<<>>)
    /\ UNCHANGED <<dur, agg, duty, work, proc, edu, scrape>>

\* lines 205-217: the oracle scores the duty against every known skill
SkillDutyOracle ==
    /\ SkillAtDuty
    /\ OracleIsAsked(SkillCur.duties[skill.j], skill.known, skill.matcher)
    /\ \E scores \in [1..Len(skill.known) -> SkillScores] :
         /\ skill.matcher = "stub" =>
               scores = OracleScores("stub", Strip(SkillCur.duties[skill.j]), skill.known)
         /\ SkillAdvance(scores)
    /\ UNCHANGED <<dur, agg, duty, work, proc, edu, scrape>>

SkillReturn ==
    /\ skill.pc = "loop" /\ skill.i > Len(skill.work_items)
    /\ skill' = [skill EXCEPT !.pc = "done", !.last = <<>>]
    /\ UNCHANGED <<dur, agg, duty, work, proc, edu, scrape>>

NextSkill ==
    \/ SkillNoneKnown
    \/ SkillStart
    \/ SkillSkipItem
    \/ SkillNextItem
    \/ SkillDutyExact
    \/ SkillDutyOracle
    \/ SkillReturn

SpecSkill == InitSkill /\ [][NextSkill]_vars

\* without the "any" oracle the run returns what the function returns
SkillRunAgreesWithFunction ==
    (skill.pc = "done" /\ skill.matcher # "any") =>
        skill.skill_months =
            build_skill_months_from_work_items(skill.work_items, skill.known_raw_skills,
                                               skill.matcher)

\* ------------------------------------------------------------------------
\* --- claims on the skill-months run
\* ------------------------------------------------------------------------
\* the entry the loop of build_skill_months_from_work_items is at is one
\* aggregate_months_by_title skips (empty title or non-positive months)
SkillCurIsSkippedByTitle ==
    /\ SkillInLoop
    /\ AggSkips([title |-> SkillCur.title, months |-> SkillCur.months])

\* C15: both aggregations skip the same entries: an employment entry whose
\* title is empty or whose months is not positive, which
\* aggregate_months_by_title skips, adds months to no skill in
\* build_skill_months_from_work_items either: a duty of such an entry leaves
\* the skill mapping as it was.
C15_BothAggregationsSkip ==
    (SkillCurIsSkippedByTitle /\ skill.last # <<>>) =>
        skill.skill_months = skill.last[1].before

\* ------------------------------------------------------------------------
\* --- claims on the returned cluster list
\* ------------------------------------------------------------------------
NonIncreasingMonths(out) ==
    \A k \in 1..(Len(out) - 1) : out[k].months >= out[k + 1].months

\* C16: the cluster list aggregate_months_by_title returns is ordered by
\* non-increasing accumulated months, with and without an oracle and for
\* every input order.
C16_SortedByMonths ==
    agg.pc = "done" => NonIncreasingMonths(agg.out)

\* an oracle run that returned two clusters the other way round than it
\* created them
C16_Witness ==
    /\ agg.pc = "done" /\ agg.matcher = "any"
    /\ Len(agg.clusters) >= 2
    /\ agg.clusters[1].months < agg.clusters[2].months
    /\ agg.out[1].position = agg.clusters[2].rep_norm

\* ------------------------------------------------------------------------
\* --- claims on the oracle mode of aggregate_months_by_title
\* ------------------------------------------------------------------------
\* the highest of the scores (0 when there is none)
MaxScore(scores) ==
    IF scores = <<>> THEN 0
    ELSE CHOOSE m \in {scores[k] : k \in 1..Len(scores)} :
            \A k \in 1..Len(scores) : scores[k] <= m

\* the earliest-created cluster with the highest score
EarliestBest(scores) ==
    CHOOSE k \in 1..Len(scores) :
        /\ scores[k] = MaxScore(scores)
        /\ \A j \in 1..(k - 1) : scores[j] < MaxScore(scores)

\* the entry joined cluster k: k has its months more, no other cluster
\* changed its months, none was created
JoinedCluster(before, after, k, months) ==
    /\ Len(after) = Len(before)
    /\ \A j \in 1..Len(before) :
          after[j].months = before[j].months + (IF j = k THEN months ELSE 0)

\* the entry opened a cluster of its own behind the others
OpenedCluster(before, after, raw_title, months) ==
    /\ Len(after) = Len(before) + 1
    /\ SubSeq(after, 1, Len(before)) = before
    /\ after[Len(after)] = NewCluster(raw_title, norm_title(raw_title), months)

\* C17: in oracle mode each entry's raw title is scored against the current
\* representative of every existing cluster in creation order; the entry
\* joins the cluster with the highest score if that score is >= 0.82,
\* otherwise a new cluster is created; among clusters with equal best score
\* the earliest-created one is chosen.
C17_JoinsBestCluster ==
    (agg.pc = "loop" /\ agg.last # <<>>) =>
        LET l == agg.last[1]
        IN  /\ l.asked = [k \in 1..Len(l.before) |-> l.before[k].rep_raw]
            /\ Len(l.scores) = Len(l.before)
            /\ IF MaxScore(l.scores) >= Thr
               THEN JoinedCluster(l.before, agg.clusters, EarliestBest(l.scores), l.months)
               ELSE OpenedCluster(l.before, agg.clusters, l.raw_title, l.months)

\* two clusters scored the same, at or above the threshold, and the entry
\* joined the first
C17_Witness ==
    /\ agg.pc = "loop" /\ agg.last # <<>>
    /\ Len(agg.last[1].before) = 2
    /\ agg.last[1].scores[1] = agg.last[1].scores[2]
    /\ agg.last[1].scores[1] >= Thr
    /\ agg.clusters[1].months = agg.last[1].before[1].months + agg.last[1].months

\* the entry was scored against a representative that an earlier entry had
\* put in the place of the cluster's first title
ScoredAgainstReplacedRep ==
    /\ agg.pc = "loop" /\ agg.last # <<>>
    /\ ~AggSkips(agg.work_items[1])
    /\ Len(agg.last[1].asked) = 1
    /\ agg.last[1].asked[1] # Strip(agg.work_items[1].title)

\* the months the mapping holds for a skill, 0 when it has none
MonthsOfSkill(sm, ns) ==
    IF \E k \in 1..Len(sm) : sm[k].skill = ns
    THEN (CHOOSE q \in {sm[k] : k \in 1..Len(sm)} : q.skill = ns).months
    ELSE 0

SkillKeys(sm) == {sm[k].skill : k \in 1..Len(sm)}

\* the known skills equal to the duty after normalization
ExactSkills(known, d) ==
    {k \in 1..Len(known) : norm_skill(d) # <<>> /\ known[k].ns = norm_skill(d)}

Earliest(S) == CHOOSE k \in S : \A j \in S : k <= j

\* the skills the statement lets a duty add months to: the first exact match;
\* failing that and with an oracle, the best-scoring skill when its score is
\* at least 0.78; nothing otherwise
DutyTargets(known, matcher, raw_duty, scores) ==
    LET d == Strip(raw_duty)
    IN  IF d = <<>> THEN {}
        ELSE IF ExactSkills(known, d) # {} THEN {known[Earliest(ExactSkills(known, d))].ns}
        ELSE IF matcher = "none" THEN {}
        ELSE IF MaxScore(scores) >= SkillThr THEN {known[EarliestBest(scores)].ns}
        ELSE {}

\* C18: in build_skill_months_from_work_items each duty string of an entry
\* adds the entry's whole month count to at most one skill: to the first
\* known skill that equals it after normalization, or, when there is no
\* exact match and an oracle is supplied, to the single best-scoring skill if
\* its score is >= 0.78; with no oracle a duty without an exact match adds
\* nothing.
C18_DutyAddsToOneSkill ==
    (skill.pc = "loop" /\ skill.last # <<>>) =>
        LET l == skill.last[1]
            targets == DutyTargets(skill.known, skill.matcher, l.duty, l.scores)
        IN  /\ Cardinality(targets) <= 1
            /\ SkillKeys(skill.skill_months) = SkillKeys(l.before) \cup targets
            /\ \A ns \in SkillKeys(skill.skill_months) :
                  MonthsOfSkill(skill.skill_months, ns) =
                      MonthsOfSkill(l.before, ns) + (IF ns \in targets THEN l.months ELSE 0)

\* an oracle duty with no exact match: two skills scored alike above the
\* threshold, and the months went to the first of them, which had months
\* from an earlier duty already
C18_Witness ==
    /\ skill.pc = "loop" /\ skill.last # <<>>
    /\ skill.matcher = "any"
    /\ Len(skill.last[1].scores) = 3
    /\ skill.last[1].scores[1] < skill.last[1].scores[2]
    /\ skill.last[1].scores[2] = skill.last[1].scores[3]
    /\ skill.last[1].scores[2] >= SkillThr
    /\ MonthsOfSkill(skill.last[1].before, skill.known[2].ns) > 0
    /\ MonthsOfSkill(skill.skill_months, skill.known[2].ns) =
          MonthsOfSkill(skill.last[1].before, skill.known[2].ns) + skill.last[1].months
    /\ MonthsOfSkill(skill.skill_months, skill.known[3].ns) = 0

\* ------------------------------------------------------------------------
\* --- the role-splitting specification: the primary parser on one block,
\* --- a title line, a dates/meta line and one duty line put together from
\* --- at most MaxRoleChunks pieces
\* ------------------------------------------------------------------------
MaxRoleChunks == 4

RoleChunks ==
    { <<"cr", ":">>, <<"dr", " ", "-">>, <<"cr">>, <<"dr">>, <<"w">>, <<" ">>, <<".">> }

RoleTitles == { <<"cr", "/", "dr">>, <<"dr", " ", "-", " ", "cr">>, <<"cr">> }

RoleMetaLine ==
    MetaLine(DateTok(1, FirstYear), DateTok(3, FirstYear),
             <<" ", "(", "w", ")", " ", "w", ",", " ", "w", " ", "(", "w", ")">>)

InitRoles ==
    /\ \E t \in RoleTitles, cs \in SeqsUpTo(RoleChunks, MaxRoleChunks) :
         work = [pc |-> "block", now_ym |-> FmtYM(FirstYear + 1, 6),
                 lines |-> WorkLinesOf(JoinNewline(<<t, RoleMetaLine, Concat(cs)>>)),
                 duties_acc |-> <<>>, duties_text |-> <<>>, role_segments |-> <<>>,
                 items |-> <<>>]
    /\ dur = Off /\ agg = Off /\ duty = Off /\ proc = Off /\ edu = Off /\ skill = Off /\ scrape = Off

\* lines 800-838: the block is scanned, the duty lines are joined and
\* _split_duties_by_role_prefixes is asked for the role segments
RolesSegment ==
    /\ work.pc = "block"
    /\ IsBlockHead(work.lines, 1)
    /\ LET duties_acc == BlockScan(work.lines, 3, <<>>).duties_acc
       IN  work' = [work EXCEPT
                      !.pc = "segmented",
                      !.duties_acc = duties_acc,
                      !.duties_text = Strip(JoinBlank(duties_acc)),
                      !.role_segments =
                          split_duties_by_role_prefixes(Strip(work.lines[1]),
                                                        Strip(JoinBlank(duties_acc)))]
    /\ UNCHANGED <<dur, agg, duty, proc, edu, skill, scrape>>

RolesEntries ==
    BlockEntries(Strip(work.lines[1]), work.lines[2], work.duties_acc,
                 parse_dates_meta_line(work.lines[2], work.now_ym),
                 work.duties_text, work.role_segments)

\* lines 840-861: one entry per role segment
RolesSplit ==
    /\ work.pc = "segmented" /\ work.role_segments # <<>>
    /\ work' = [work EXCEPT !.pc = "done", !.items = RolesEntries]
    /\ UNCHANGED <<dur, agg, duty, proc, edu, skill, scrape>>

\* lines 862-881: the block is one entry
RolesSingle ==
    /\ work.pc = "segmented" /\ work.role_segments = <<>>
    /\ work' = [work EXCEPT !.pc = "done", !.items = RolesEntries]
    /\ UNCHANGED <<dur, agg, duty, proc, edu, skill, scrape>>

NextRoles == RolesSegment \/ RolesSplit \/ RolesSingle

SpecRoles == InitRoles /\ [][NextRoles]_vars

\* the run returns what the primary parser returns for the three lines
RolesRunAgreesWithParser ==
    (work.pc = "done" /\ Len(work.lines) >= 2) =>
        work.items = PrimaryItems(work.lines, 1, work.now_ym)

\* the candidate roles of the block's title
RolesOfBlock == split_title_into_role_candidates(Strip(work.lines[1]))

\* how often the role occurs in the text followed by a separator glyph
CountRoleHits(dt, role) ==
    Cardinality({i \in 1..Len(dt) : RoleMatchEnd(dt, i, role) # 0})

EveryRoleOnce ==
    \A k \in 1..Len(RolesOfBlock) :
        CountRoleHits(normalize_ws(work.duties_text), RolesOfBlock[k]) = 1

\* one entry per candidate role, all with the dates, company, city and
\* industry of the meta line
SplitPerRole ==
    /\ Len(work.items) = Len(RolesOfBlock)
    /\ {work.items[k].title : k \in 1..Len(work.items)} =
          {RolesOfBlock[k] : k \in 1..Len(RolesOfBlock)}
    /\ \A k \in 1..Len(work.items) :
          LET meta == parse_dates_meta_line(work.lines[2], work.now_ym)
          IN  /\ work.items[k].start = meta.start /\ work.items[k].end = meta.end
              /\ work.items[k].company = meta.company /\ work.items[k].city = meta.city
              /\ work.items[k].industry = meta.industry

KeptSingle ==
    /\ Len(work.items) = 1
    /\ work.items[1].title = Strip(work.lines[1])

\* C19: role splitting in the primary strategy: a block whose title names
\* several roles is split into one entry per role (sharing dates, company,
\* city, industry) if and only if every candidate role occurs in the duty
\* text followed by a separator glyph exactly once; if any role is missing
\* or occurs more than once with a separator, the block is kept as a single
\* entry.
C19_SplitIffEveryRoleOnce ==
    (work.pc = "done" /\ Len(RolesOfBlock) >= 2) =>
        IF EveryRoleOnce THEN SplitPerRole ELSE KeptSingle

\* ------------------------------------------------------------------------
\* --- claims on the duty lists of the returned entries
\* ------------------------------------------------------------------------
\* no two items of the list are equal ignoring case
NoCaseDuplicates(duties) ==
    \A a, b \in 1..Len(duties) :
        a # b => LowerStr(duties[a]) # LowerStr(duties[b])

\* C20: the duty list of every employment entry is deduplicated
\* case-insensitively with first-seen order kept: no two items of one
\* entry's duties are equal ignoring case, for entries of the primary
\* strategy (split_duties, split_duties_strict_dot_semi) as well as of the
\* fallbacks.
C20_DutiesDeduplicated ==
    (work.pc = "done") =>
        \A k \in 1..Len(work.items) : NoCaseDuplicates(work.items[k].duties)

\* ------------------------------------------------------------------------
\* --- the title-filling specification: one call of
\* --- fill_missing_work_titles, one entry per step
\* ------------------------------------------------------------------------
MaxFillItems == 2

FillTitles == {<<>>, <<" ">>, <<"cr">>, <<" ", "cr">>}

FillEntries == [title : FillTitles, months : {0, 3}, company : {Nil, <<"w">>}]

FillWorkTexts ==
    { <<>>,
      <<"w", "\n", "pos", ":", " ", "cr", " ", "w", "\n", "w">>,
      <<"pos", " ", "-", "dr", " ">>,
      <<"pos", " ", "w">> }

FillPositions == {Nil, <<>>, <<" ">>, <<" ", "dr", " ">>}

InitFill ==
    /\ \E items \in SeqsUpTo(FillEntries, MaxFillItems), wt \in FillWorkTexts,
          p \in FillPositions :
         proc = [pc |-> "fill", work_items |-> items, work_text |-> wt, position |-> p,
                 pos |-> <<>>, i |-> 1, out |-> <<>>]
    /\ dur = Off /\ agg = Off /\ duty = Off /\ work = Off /\ edu = Off /\ skill = Off /\ scrape = Off

\* lines 27-31
FillFindPosition ==
    /\ proc.pc = "fill"
    /\ proc' = [proc EXCEPT !.pc = "loop",
                            !.pos = FillPosition(proc.work_text, proc.position)]
    /\ UNCHANGED <<dur, agg, duty, work, edu, skill, scrape>>

FillAdvance ==
    proc' = [proc EXCEPT !.i = @ + 1,
                         !.out = Append(@, FillStep(proc.work_items[proc.i], proc.pos))]

\* lines 33-38: a blank title and a position, setattr
FillSetTitle ==
    /\ proc.pc = "loop" /\ proc.i <= Len(proc.work_items)
    /\ Strip(proc.work_items[proc.i].title) = <<>> /\ proc.pos # <<>>
    /\ FillAdvance
    /\ UNCHANGED <<dur, agg, duty, work, edu, skill, scrape>>

\* lines 33-34: the entry is passed over
FillKeepTitle ==
    /\ proc.pc = "loop" /\ proc.i <= Len(proc.work_items)
    /\ ~(Strip(proc.work_items[proc.i].title) = <<>> /\ proc.pos # <<>>)
    /\ FillAdvance
    /\ UNCHANGED <<dur, agg, duty, work, edu, skill, scrape>>

\* line 39
FillReturn ==
    /\ proc.pc = "loop" /\ proc.i > Len(proc.work_items)
    /\ proc' = [proc EXCEPT !.pc = "filled"]
    /\ UNCHANGED <<dur, agg, duty, work, edu, skill, scrape>>

NextFill == FillFindPosition \/ FillSetTitle \/ FillKeepTitle \/ FillReturn

SpecFill == InitFill /\ [][NextFill]_vars

FillRunAgreesWithFunction ==
    proc.pc = "filled" =>
        proc.out = fill_missing_work_titles(proc.work_items, proc.work_text, proc.position)

\* the headline position the statement names: the payload's position when it
\* is not blank, else the text after a position label of the work text, <<>>
\* when neither is there
HeadlinePosition ==
    IF proc.position # Nil /\ Strip(proc.position) # <<>> THEN Strip(proc.position)
    ELSE IF \E i \in 1..Len(proc.work_text) : LabelledPositionAt(proc.work_text, i) # <<>>
         THEN LabelledPositionAt(proc.work_text,
                  CHOOSE i \in 1..Len(proc.work_text) :
                     /\ LabelledPositionAt(proc.work_text, i) # <<>>
                     /\ \A j \in 1..(i - 1) : LabelledPositionAt(proc.work_text, j) = <<>>)
    ELSE <<>>

\* C21: fill_missing_work_titles sets the title of every entry whose title
\* is blank to the headline position when a position is available (the
\* payload's position, else a 'Position:' label found in the work text),
\* leaves every entry with a non-blank title unchanged, changes no other
\* field, and neither adds nor removes entries.
C21_FillsOnlyBlankTitles ==
    proc.pc = "filled" =>
        /\ Len(proc.out) = Len(proc.work_items)
        /\ \A k \in 1..Len(proc.out) :
              IF Strip(proc.work_items[k].title) = <<>> /\ HeadlinePosition # <<>>
              THEN proc.out[k] = [proc.work_items[k] EXCEPT !.title = HeadlinePosition]
              ELSE proc.out[k] = proc.work_items[k]

\* a position from the label of the work text went into the blank title of
\* the first entry, and the second entry kept its own
C21_Witness ==
    /\ proc.pc = "filled"
    /\ proc.position \in {Nil, <<" ">>}
    /\ Len(proc.out) = 2
    /\ proc.work_items[1].title = <<" ">> /\ proc.out[1].title = <<"cr", " ", "w">>
    /\ proc.out[1].company = <<"w">>
    /\ proc.work_items[2].title = <<" ", "cr">> /\ proc.out[2] = proc.work_items[2]

\* ------------------------------------------------------------------------
\* --- the language specification: the language loop of
\* --- regex_extract_from_payload on a languages field made of at most
\* --- MaxLanguages items, one item per step
\* ------------------------------------------------------------------------
MaxLanguages == 2

LanguageNames == { <<>>, <<"en">>, <<"en", " ", "w">> }

LanguageJoins == { <<" ", "-", " ">>, <<":">>, <<" ">> }

LanguageRemainders ==
    { <<>>, <<"w">>, <<"mid">>, <<"up", "-", "mid">>, <<"up", " ", "mid">>,
      <<"b", "2">>, <<"w", " ", "C", "1">>, <<"up", "mid">> }

LanguageItems ==
    { n \o j \o r : n \in LanguageNames, j \in LanguageJoins, r \in LanguageRemainders }

InitLang ==
    /\ \E items \in SeqsUpTo(LanguageItems, MaxLanguages) :
         proc = [pc |-> "languages", field |-> JoinComma(items),
                 languages |-> LanguagesOf(JoinComma(items)), k |-> 1, seen |-> {},
                 languages_structured |-> <<>>]
    /\ dur = Off /\ agg = Off /\ duty = Off /\ work = Off /\ edu = Off /\ skill = Off /\ scrape = Off

LangInLoop == proc.pc = "languages" /\ proc.k <= Len(proc.languages)

LangCur == parse_language_item(proc.languages[proc.k])

\* lines 54-55: parse_language_item returned None
LangDropped ==
    /\ LangInLoop /\ LangCur = <<>>
    /\ proc' = [proc EXCEPT !.k = @ + 1]
    /\ UNCHANGED <<dur, agg, duty, work, edu, skill, scrape>>

\* lines 56-58: the (language, level) key was seen
LangRepeated ==
    /\ LangInLoop /\ LangCur # <<>> /\ LangCur[1] \in proc.seen
    /\ proc' = [proc EXCEPT !.k = @ + 1]
    /\ UNCHANGED <<dur, agg, duty, work, edu, skill, scrape>>

\* lines 59-60
LangAppended ==
    /\ LangInLoop /\ LangCur # <<>> /\ LangCur[1] \notin proc.seen
    /\ proc' = [proc EXCEPT !.k = @ + 1, !.seen = @ \cup {LangCur[1]},
                            !.languages_structured = @ \o LangCur]
    /\ UNCHANGED <<dur, agg, duty, work, edu, skill, scrape>>

LangReturn ==
    /\ proc.pc = "languages" /\ proc.k > Len(proc.languages)
    /\ proc' = [proc EXCEPT !.pc = "structured"]
    /\ UNCHANGED <<dur, agg, duty, work, edu, skill, scrape>>

NextLang == LangDropped \/ LangRepeated \/ LangAppended \/ LangReturn

SpecLang == InitLang /\ [][NextLang]_vars

LangRunAgreesWithFunction ==
    proc.pc = "structured" => proc.languages_structured = LanguagesStructured(proc.languages, {})

\* the synonyms the text holds, with their levels
HeldAliases(t) ==
    {q \in UNION {{[level |-> LevelAliases[l].level, alias |-> LevelAliases[l].aliases[a]] :
                      a \in 1..Len(LevelAliases[l].aliases)} : l \in 1..Len(LevelAliases)} :
        HasAlias(t, q.alias)}

\* the level whose synonym the remainder names: that of the longest synonym
\* it holds ("upper-intermediate" holds "intermediate" too), None without one
NamedLevel(rest) ==
    LET t == CollapseWs(LowerStr(Strip(rest)))
    IN  IF HeldAliases(t) = {} THEN None
        ELSE (CHOOSE q \in HeldAliases(t) :
                 \A r \in HeldAliases(t) : TextLen(r.alias) <= TextLen(q.alias)).level

\* the remainder of a language item: what follows the first hyphen or colon,
\* or the first word when there is neither
RemainderOf(item) ==
    LET t == Strip(item)
    IN  IF \E i \in 1..Len(t) : t[i] \in LanguageSeps
        THEN SubSeq(t, (CHOOSE i \in 1..Len(t) :
                           t[i] \in LanguageSeps /\ \A j \in 1..(i - 1) : t[j] \notin LanguageSeps) + 1,
                    Len(t))
        ELSE SubSeq(t, Len(FirstWord(t)) + 1, Len(t))

\* the language an item names: what precedes the first hyphen or colon, or
\* the first word when there is neither
NameOf(item) ==
    LET t == Strip(item)
    IN  IF \E i \in 1..Len(t) : t[i] \in LanguageSeps
        THEN Strip(SubSeq(t, 1, (CHOOSE i \in 1..Len(t) :
                                    t[i] \in LanguageSeps
                                    /\ \A j \in 1..(i - 1) : t[j] \notin LanguageSeps) - 1))
        ELSE FirstWord(t)

\* C22: language extraction never drops a language whose proficiency
\* remainder is unmatched: every non-empty language item (one that names a
\* language) yields a language entry, with level unresolved when the remainder matches none of the five
\* levels, and with the level whose synonym it names otherwise (the
\* remainder 'upper-intermediate' yields the upper-intermediate level, not
\* intermediate).
C22_LanguageKeptWithNamedLevel ==
    proc.pc = "structured" =>
        \A k \in 1..Len(proc.languages) :
            NameOf(proc.languages[k]) # <<>> =>
                \E e \in 1..Len(proc.languages_structured) :
                    /\ proc.languages_structured[e].language = NameOf(proc.languages[k])
                    /\ proc.languages_structured[e].level =
                          NamedLevel(RemainderOf(proc.languages[k]))

\* ------------------------------------------------------------------------
\* --- claims on dates that cannot be resolved
\* ------------------------------------------------------------------------
\* C23: unresolved data never aborts: a date token that cannot be parsed
\* (month outside 01..12, year 0000, non-canonical text) makes the date
\* engine and the section parsers return an unresolved value and zero
\* duration; parse_education_section does not raise on such a token: no run
\* of it ends in an exception.
C23_UnresolvedNeverAborts ==
    edu.pc # "off" => edu.pc # "raised"

\* ------------------------------------------------------------------------
\* --- the meta-line specification: parse_dates_meta_line on one line
\* --- "from DATE to DATE [(annotation)] company[, city] [(industry)]"
\* ------------------------------------------------------------------------
MaxMetaMonth == 3

MetaCompanies == { <<"w">>, <<"tov", " ", "w">> }

MetaCities == { <<>>, <<"W">> }

MetaIndustries == { <<>>, <<"w">>, <<"w", " ", "w">> }

MetaEnds == { DateTok(MaxMetaMonth, FirstYear), <<"nyni">> }

\* the text of the line after the dates
MetaTail(annotated, company, city, industry) ==
    (IF annotated THEN <<" ", "(", "2", " ", "w", ")">> ELSE <<>>)
    \o <<" ">> \o company
    \o (IF city # <<>> THEN <<",", " ">> \o city ELSE <<>>)
    \o (IF industry # <<>> THEN <<" ", "(">> \o industry \o <<")">> ELSE <<>>)

InitMeta ==
    /\ \E a \in BOOLEAN, c \in MetaCompanies, ct \in MetaCities, ind \in MetaIndustries,
          m \in 1..MaxMetaMonth, e \in MetaEnds :
         work = [pc |-> "meta", now_ym |-> FmtYM(FirstYear + 1, 6), annotated |-> a,
                 line |-> MetaLine(DateTok(m, FirstYear), e, MetaTail(a, c, ct, ind)),
                 twin |-> MetaLine(DateTok(m, FirstYear), e, MetaTail(TRUE, c, ct, ind)),
                 company |-> c, city |-> ct, industry |-> ind, meta |-> <<>>]
    /\ dur = Off /\ agg = Off /\ duty = Off /\ proc = Off /\ edu = Off /\ skill = Off /\ scrape = Off

MetaParsed ==
    work' = [work EXCEPT !.pc = "parsed",
                         !.meta = <<parse_dates_meta_line(work.line, work.now_ym)>>]

\* lines 722-725: the line holds a parenthesis, the meta part is what
\* follows the first one
MetaAfterParenthesis ==
    /\ work.pc = "meta" /\ AfterFirstParen(Strip(work.line)) # Nil
    /\ MetaParsed
    /\ UNCHANGED <<dur, agg, duty, proc, edu, skill, scrape>>

\* lines 726-730: no parenthesis, the meta part is what follows "to DATE"
MetaAfterDates ==
    /\ work.pc = "meta" /\ AfterFirstParen(Strip(work.line)) = Nil
    /\ MetaParsed
    /\ UNCHANGED <<dur, agg, duty, proc, edu, skill, scrape>>

NextMeta == MetaAfterParenthesis \/ MetaAfterDates

SpecMeta == InitMeta /\ [][NextMeta]_vars

\* C24: the duration annotation of a metadata line is optional: for a line
\* 'from DATE to DATE company[, city] (industry)' without a parenthesized
\* duration annotation, parse_dates_meta_line still returns the company (and
\* city) written before the last parenthesis and the last parenthesis as
\* industry, the same as it returns for the line with the annotation
\* present.
C24_AnnotationOptional ==
    (work.pc = "parsed" /\ ~work.annotated /\ work.industry # <<>>) =>
        /\ work.meta[1].company = work.company
        /\ work.meta[1].industry = work.industry
        /\ work.meta[1].company = parse_dates_meta_line(work.twin, work.now_ym).company
        /\ work.meta[1].city = parse_dates_meta_line(work.twin, work.now_ym).city
        /\ work.meta[1].industry = parse_dates_meta_line(work.twin, work.now_ym).industry

\* ------------------------------------------------------------------------
\* --- claims on what the extraction depends on
\* ------------------------------------------------------------------------
\* the payload with its languages field taken out
WithoutLanguages(payload) == [payload EXCEPT !.parsed.languages = Nil]

SameSections(a, b) ==
    /\ a.work_items = b.work_items
    /\ a.edu_items = b.edu_items
    /\ a.skills = b.skills
    /\ a.position = b.position

\* C25: the work entries, education entries, skills and position returned by
\* regex_extract_from_payload depend only on the work_experience, education,
\* skills and position fields of payload.parsed: a payload and the payload
\* that differs from it only in the languages field yield the same
\* work_items, edu_items, skills and position.
C25_LanguagesDoNotInterfere ==
    (proc.pc = "extracted") =>
        SameSections(proc.rx[1],
                     regex_extract_from_payload(WithoutLanguages(proc.payload), proc.now_ym))

\* ------------------------------------------------------------------------
\* --- claims on the months of a block split by role
\* ------------------------------------------------------------------------
\* C26: total work months count each employment block once: when the primary
\* strategy splits one title+metadata block into several per-role entries,
\* the sum of months used for total_work_years (the sum over the entries)
\* equals the months of that one block, the same total as when the block is
\* kept as a single entry.
C26_BlockCountedOnce ==
    (work.pc = "done" /\ Len(work.lines) >= 2) =>
        TotalMonths(work.items) = parse_dates_meta_line(work.lines[2], work.now_ym).months


\* ------------------------------------------------------------------------
\* --- claims on the returned skill mapping
\* ------------------------------------------------------------------------
\* the months of the entries build_skill_months_from_work_items does not skip
PositiveMonthsTotal(items) ==
    TotalMonths([k \in 1..Len(items) |->
                    [months |-> IF items[k].months > 0 THEN items[k].months ELSE 0]])

\* C27: for every skill of the mapping build_skill_months_from_work_items
\* returns, the months of the skill are at most the sum of the months of all
\* entries with positive months: one entry adds its months to a skill at most
\* once, even when several of its duties match that skill.
C27_SkillMonthsBounded ==
    skill.pc = "done" =>
        \A ns \in SkillKeys(skill.skill_months) :
            MonthsOfSkill(skill.skill_months, ns) <= PositiveMonthsTotal(skill.work_items)


\* ------------------------------------------------------------------------
\* --- claims on the cluster representatives
\* ------------------------------------------------------------------------
\* every cluster's representative is one of its titles and its key is the
\* normal form of the representative
RepresentativesConsistent ==
    agg.pc # "off" =>
        \A k \in 1..Len(agg.clusters) :
            /\ agg.clusters[k].rep_raw \in agg.clusters[k].titles
            /\ agg.clusters[k].rep_norm = norm_title(agg.clusters[k].rep_raw)

\* a step that changes the representative of cluster k is the oracle-mode
\* step of an entry that joins k with a strictly shorter raw title, which is
\* the new representative
RepresentativeStep ==
    agg.pc # "off" =>
        \A k \in 1..Len(agg.clusters) :
            agg'.clusters[k].rep_raw # agg.clusters[k].rep_raw =>
                /\ AggInLoop
                /\ agg.matcher # "none"
                /\ agg'.clusters[k].months = agg.clusters[k].months + AggCur.months
                /\ TextLen(Strip(AggCur.title)) < TextLen(agg.clusters[k].rep_raw)
                /\ agg'.clusters[k].rep_raw = Strip(AggCur.title)

\* C28: cluster representative invariant: after every step of
\* aggregate_months_by_title each cluster's representative title is a member
\* of the cluster's title set and its normalized key equals norm_title of the
\* representative; the representative changes only when an entry joins in
\* oracle mode with a strictly shorter raw title (then it becomes that
\* title), and in exact-key mode it never changes.
C28_RepresentativeInvariant ==
    /\ []RepresentativesConsistent
    /\ [][RepresentativeStep]_vars

\* an oracle-mode entry has just joined a cluster whose representative was
\* longer and is now the entry's title, with another key than before
C28_Witness ==
    /\ agg.pc = "loop" /\ agg.last # <<>>
    /\ Len(agg.last[1].before) = Len(agg.clusters)
    /\ \E k \in 1..Len(agg.clusters) :
          /\ agg.clusters[k].rep_raw = agg.last[1].raw_title
          /\ agg.clusters[k].rep_raw # agg.last[1].before[k].rep_raw
          /\ agg.clusters[k].rep_norm # agg.last[1].before[k].rep_norm
          /\ Cardinality(agg.clusters[k].titles) >= 2


\* no two summaries of the list carry the same position
DistinctPositions(out) ==
    \A i, j \in 1..Len(out) : i # j => out[i].position # out[j].position

\* C29: in the list aggregate_months_by_title returns, in exact-key mode and
\* in oracle mode alike, no two cluster summaries carry the same normalized
\* key (position).
C29_PositionsDistinct ==
    agg.pc = "done" => DistinctPositions(agg.out)


\* ------------------------------------------------------------------------
\* WorkUAScraper.iter_resumes_until (scraper/workua.py)
\*
\* One run of the generator driven by a consumer that keeps asking (as
\* scrape_resumes_until does with list()).  The listing and the resume
\* pages are the environment: every fetch of a listing page returns some
\* list of URLs without repetition (line 354), empty or not, and every
\* extraction returns a payload or None.  The URLs of a listing are
\* absolute, which _normalize_resume_url returns as they are (lines
\* 419-420).  max_pages is an optional value: a list of at most one
\* element, the empty list is None.
\* ------------------------------------------------------------------------
MaxTarget == 2

MaxStartPage == 2

MaxPagesGiven == 2

MaxSkipFirst == 1

ResumeUrls == {"u1", "u2"}

\* what a fetch of one listing page can return
PageResults == {<<>>, <<"u1">>, <<"u2">>, <<"u1", "u2">>, <<"u2", "u1">>}

\* line 174 is the only reader of page; from PageCap on it stops every run
\* that was given max_pages, so the pages from PageCap on are one value
PageCap == MaxStartPage + MaxPagesGiven

InitScrape ==
    /\ \E t \in 0..MaxTarget, sp \in 0..MaxStartPage, sf \in 0..MaxSkipFirst,
          mp \in {<<>>} \cup {<<m>> : m \in 0..MaxPagesGiven}, d \in BOOLEAN :
         scrape = [pc |-> "start", target_n |-> t, start_page |-> sp, skip_first |-> sf,
                   max_pages |-> mp, dedupe |-> d, page |-> 0, yielded |-> 0,
                   seen |-> {}, skipped |-> 0, page_urls |-> <<>>]
    /\ dur = Off /\ agg = Off /\ duty = Off /\ work = Off /\ proc = Off /\ edu = Off
    /\ skill = Off

\* lines 160-161
ScrapeNothingAsked ==
    /\ scrape.pc = "start" /\ scrape.target_n <= 0
    /\ scrape' = [scrape EXCEPT !.pc = "done"]
    /\ UNCHANGED <<dur, agg, duty, work, proc, edu, skill>>

\* lines 168-171
ScrapeBegin ==
    /\ scrape.pc = "start" /\ scrape.target_n > 0
    /\ scrape' = [scrape EXCEPT !.pc = "page",
                                !.page = IF scrape.start_page > 1 THEN scrape.start_page ELSE 1]
    /\ UNCHANGED <<dur, agg, duty, work, proc, edu, skill>>

\* line 174
StoppedByMaxPages ==
    /\ scrape.max_pages # <<>>
    /\ scrape.page - scrape.start_page >= scrape.max_pages[1]

\* lines 174-176
ScrapeMaxPages ==
    /\ scrape.pc = "page" /\ StoppedByMaxPages
    /\ scrape' = [scrape EXCEPT !.pc = "done"]
    /\ UNCHANGED <<dur, agg, duty, work, proc, edu, skill>>

\* lines 178-181: the listing page has no URL
ScrapeNoUrls ==
    /\ scrape.pc = "page" /\ ~StoppedByMaxPages
    /\ scrape' = [scrape EXCEPT !.pc = "done"]
    /\ UNCHANGED <<dur, agg, duty, work, proc, edu, skill>>

\* lines 178-185: the listing page has URLs
ScrapeFetch ==
    /\ scrape.pc = "page" /\ ~StoppedByMaxPages
    /\ \E urls \in PageResults \ {<<>>} :
         scrape' = [scrape EXCEPT !.pc = "urls", !.page_urls = urls]
    /\ UNCHANGED <<dur, agg, duty, work, proc, edu, skill>>

ScrapeAtUrl == scrape.pc = "urls" /\ scrape.page_urls # <<>>

ScrapeCur == Head(scrape.page_urls)

\* lines 190-191
SeenWith(u) == IF scrape.dedupe THEN scrape.seen \cup {u} ELSE scrape.seen

\* lines 188-189
ScrapeSeen ==
    /\ ScrapeAtUrl
    /\ scrape.dedupe /\ ScrapeCur \in scrape.seen
    /\ scrape' = [scrape EXCEPT !.page_urls = Tail(@)]
    /\ UNCHANGED <<dur, agg, duty, work, proc, edu, skill>>

ScrapeIsNew == ScrapeAtUrl /\ ~(scrape.dedupe /\ ScrapeCur \in scrape.seen)

\* lines 193-195
ScrapeSkipFirst ==
    /\ ScrapeIsNew
    /\ scrape.skipped < scrape.skip_first
    /\ scrape' = [scrape EXCEPT !.page_urls = Tail(@), !.seen = SeenWith(ScrapeCur),
                                !.skipped = @ + 1]
    /\ UNCHANGED <<dur, agg, duty, work, proc, edu, skill>>

\* lines 197-201: _safe_extract_payload returned None
ScrapeFailed ==
    /\ ScrapeIsNew
    /\ scrape.skipped >= scrape.skip_first
    /\ scrape' = [scrape EXCEPT !.page_urls = Tail(@), !.seen = SeenWith(ScrapeCur)]
    /\ UNCHANGED <<dur, agg, duty, work, proc, edu, skill>>

\* lines 203-214: a payload is yielded; the run returns when that was the
\* last one asked for
ScrapeYield ==
    /\ ScrapeIsNew
    /\ scrape.skipped >= scrape.skip_first
    /\ scrape' = [scrape EXCEPT !.page_urls = Tail(@), !.seen = SeenWith(ScrapeCur),
                                !.yielded = @ + 1,
                                !.pc = IF scrape.yielded + 1 >= scrape.target_n
                                       THEN "done" ELSE "urls"]
    /\ UNCHANGED <<dur, agg, duty, work, proc, edu, skill>>

\* line 216
ScrapeNextPage ==
    /\ scrape.pc = "urls" /\ scrape.page_urls = <<>>
    /\ scrape' = [scrape EXCEPT !.pc = "page",
                                !.page = IF @ < PageCap THEN @ + 1 ELSE PageCap]
    /\ UNCHANGED <<dur, agg, duty, work, proc, edu, skill>>

NextScrape ==
    \/ ScrapeNothingAsked
    \/ ScrapeBegin
    \/ ScrapeMaxPages
    \/ ScrapeNoUrls
    \/ ScrapeFetch
    \/ ScrapeSeen
    \/ ScrapeSkipFirst
    \/ ScrapeFailed
    \/ ScrapeYield
    \/ ScrapeNextPage

SpecScrape == InitScrape /\ [][NextScrape]_vars

\* the consumer keeps asking and every fetch returns: a step that can be
\* taken is taken
SpecScrapeFair == SpecScrape /\ WF_vars(NextScrape)

\* ------------------------------------------------------------------------
\* --- claims on the scraper loop
\* ------------------------------------------------------------------------
\* at most target_n payloads are yielded
YieldedAtMostTarget ==
    scrape.pc # "off" => scrape.yielded <= scrape.target_n

\* a run that was given max_pages stops
StopsWithMaxPages ==
    (scrape.pc = "start" /\ scrape.max_pages # <<>>) ~> (scrape.pc = "done")

\* C30: WorkUAScraper.iter_resumes_until eventually stops for every
\* sequence of listing-page results, also when max_pages is not given:
\* provided each page fetch returns, the iterator finishes after yielding at
\* most target_n payloads, even if the listing keeps returning non-empty
\* pages whose URLs are all already seen or all fail extraction.
C30_EventuallyStops ==
    /\ []YieldedAtMostTarget
    /\ <>(scrape.pc = "done")

=============================================================================
